---- MODULE Spec2Model ----
(***************************************************************************)
(* A model of package base64dq (src/base64dq.go): a base64 codec whose 64  *)
(* symbols and padding symbol are arbitrary Unicode code points, encoded   *)
(* as UTF-8.  Byte strings are sequences of 0..255 (index 1 of a TLA+      *)
(* sequence is Go index 0), runes are integers, errors are integers:       *)
(* NilErr, EOF, or k >= 0 for CorruptInputError(k).                        *)
(***************************************************************************)
EXTENDS Integers, Sequences, FiniteSets, TLC

VARIABLES
    cfg,        \* which of Encodings the program uses
    encoding,   \* the *Encoding in use, once buildOnce has set its root
    pc,         \* position of the calling program
    data,       \* the bytes handed to EncodeToString
    text,       \* the encoded text handed to DecodeString / the stream's source
    toks,       \* how text was put together: a sequence of [k, b] tokens
    steps,      \* number of edits made to text: tokens appended, CR/LF inserted
    res,        \* what DecodeString returned
    dec,        \* the streaming decoder (type decoder)
    rest,       \* the wrapped io.Reader: bytes not yet delivered
    chunked,    \* whether the wrapped io.Reader may deliver short chunks
    got,        \* bytes the Read calls have handed to the caller so far
    rerr,       \* error returned by the last Read
    minp,       \* smallest len(p) any Read was called with
    panicked,   \* "" or the run-time panic that ended the program
    wr,         \* the program that writes to a streaming encoder (type encoder)
    conf,       \* the program that builds configurations
    ebuf,       \* what Encode left in the caller's buffer
    once,       \* the goroutines that share one Encoding, and its once and root
    re,         \* what re-encoding the decoded bytes and decoding again gave
    loop        \* the locals of a call of Decode that is in its main loop

vars == <<cfg, encoding, pc, data, text, toks, steps, res, dec, rest, chunked, got, rerr, minp, panicked,
          wr, conf, ebuf, once, re, loop>>

-----------------------------------------------------------------------------
(* Bounds of the model.                                                    *)
MaxLen == 3         \* longest data handed to EncodeToString
MaxNL == 2          \* most CR/LF bytes inserted into one encoded text
MaxTok == 4         \* most tokens appended to a hand-built text
MaxStreamTok == 3   \* most tokens of a text fed to the streaming decoder

-----------------------------------------------------------------------------
(* Go values.                                                              *)
NilErr == -1
EOF == -2
CorruptInputError(k) == k

Min(a, b) == IF a < b THEN a ELSE b
Max(a, b) == IF a > b THEN a ELSE b
SubSeqFrom(s, i) == SubSeq(s, i, Len(s))

\* copy(dst[di:], s) into a dst of length Len(dst); di is a Go (0-based) index.
\* Returns the bytes actually copied.
CopyLen(dst, di, s) == Min(Len(dst) - di, Len(s))
CopyAt(dst, di, s) ==
    [x \in 1..Len(dst) |->
        IF x > di /\ x <= di + CopyLen(dst, di, s) THEN s[x - di] ELSE dst[x]]
Zeros(n) == [x \in 1..n |-> 0]

-----------------------------------------------------------------------------
(* unicode/utf8, as far as the package uses it.                            *)
RuneError == 65533

IsSurrogate(r) == r >= 55296 /\ r <= 57343

\* utf8.RuneLen
RuneLen(r) ==
    IF r < 0 THEN -1
    ELSE IF r <= 127 THEN 1
    ELSE IF r <= 2047 THEN 2
    ELSE IF IsSurrogate(r) THEN -1
    ELSE IF r <= 65535 THEN 3
    ELSE IF r <= 1114111 THEN 4
    ELSE -1

\* the bytes utf8.EncodeRune writes (an invalid rune is written as RuneError)
RuneBytes(r) ==
    LET q == IF RuneLen(r) = -1 THEN RuneError ELSE r IN
    IF q <= 127 THEN <<q>>
    ELSE IF q <= 2047 THEN <<192 + (q \div 64), 128 + (q % 64)>>
    ELSE IF q <= 65535
         THEN <<224 + (q \div 4096), 128 + ((q \div 64) % 64), 128 + (q % 64)>>
    ELSE <<240 + (q \div 262144), 128 + ((q \div 4096) % 64),
           128 + ((q \div 64) % 64), 128 + (q % 64)>>

IsCont(s, i, lo, hi) == i <= Len(s) /\ s[i] >= lo /\ s[i] <= hi

\* utf8.DecodeRuneInString(s[i-1:]): [r, size]; any invalid or short
\* sequence decodes as (RuneError, 1), the empty string as (RuneError, 0).
DecodeRune(s, i) ==
    LET b0 == IF i > Len(s) THEN 0 ELSE s[i]
        bad == [r |-> RuneError, size |-> 1]
        lo2 == IF b0 = 224 THEN 160 ELSE IF b0 = 240 THEN 144 ELSE 128
        hi2 == IF b0 = 237 THEN 159 ELSE IF b0 = 244 THEN 143 ELSE 191
    IN  IF i > Len(s) THEN [r |-> RuneError, size |-> 0]
        ELSE IF b0 < 128 THEN [r |-> b0, size |-> 1]
        ELSE IF b0 >= 194 /\ b0 <= 223
             THEN IF IsCont(s, i + 1, 128, 191)
                  THEN [r |-> (b0 - 192) * 64 + (s[i + 1] - 128), size |-> 2]
                  ELSE bad
        ELSE IF b0 >= 224 /\ b0 <= 239
             THEN IF IsCont(s, i + 1, lo2, hi2) /\ IsCont(s, i + 2, 128, 191)
                  THEN [r |-> (b0 - 224) * 4096 + (s[i + 1] - 128) * 64
                                + (s[i + 2] - 128),
                        size |-> 3]
                  ELSE bad
        ELSE IF b0 >= 240 /\ b0 <= 244
             THEN IF /\ IsCont(s, i + 1, lo2, hi2)
                     /\ IsCont(s, i + 2, 128, 191)
                     /\ IsCont(s, i + 3, 128, 191)
                  THEN [r |-> (b0 - 240) * 262144 + (s[i + 1] - 128) * 4096
                                + (s[i + 2] - 128) * 64 + (s[i + 3] - 128),
                        size |-> 4]
                  ELSE bad
        ELSE bad

\* for i, ch := range s, from byte i up to (not including) byte stop: the
\* [i, ch] pairs (i a Go index) and the byte the next iteration starts at.
\* The iterations are taken as two halves, one after the other.
RECURSIVE rangeFrom(_, _, _)
rangeFrom(s, i, stop) ==
    IF i >= stop THEN [rs |-> <<>>, next |-> i]
    ELSE IF stop = i + 1
    THEN [rs |-> <<[i |-> i - 1, ch |-> DecodeRune(s, i).r]>>,
          next |-> i + DecodeRune(s, i).size]
    ELSE CHOOSE r \in UNION {{[rs |-> l.rs \o u.rs, next |-> u.next] :
                                 u \in {rangeFrom(s, l.next, stop)}} :
                             l \in {rangeFrom(s, i, (i + stop) \div 2)}} : TRUE

\* for i, ch := range s[i-1:]
RangeString(s, i) == rangeFrom(s, i, Len(s) + 1).rs

\* the string literal made of the code points rs[lo..hi]
RECURSIVE StringOfRange(_, _, _)
StringOfRange(rs, lo, hi) ==
    IF lo > hi THEN <<>>
    ELSE IF lo = hi THEN RuneBytes(rs[lo])
    ELSE StringOfRange(rs, lo, (lo + hi) \div 2)
            \o StringOfRange(rs, ((lo + hi) \div 2) + 1, hi)

StringOf(rs) == StringOfRange(rs, 1, Len(rs))

-----------------------------------------------------------------------------
(* type Encoding and its constructors.  A constructor that panics returns  *)
(* a record whose panic field names the panic.                             *)
StdPadding == 12539     \* U+30FB
NoPadding == -1

\* a nil enc.root: buildOnce has not run
NilRoot == [nodes |-> <<>>, tabs |-> <<>>]

\* decodeMap.sort: the (rune, byte) pairs ordered by rune
sortPairs(ps) ==
    [x \in 1..Len(ps) |->
        ps[CHOOSE y \in 1..Len(ps) :
              Cardinality({z \in 1..Len(ps) :
                              ps[z].r < ps[y].r \/ (ps[z].r = ps[y].r /\ z < y)}) = x - 1]]

\* decodeMap.search (binary search of the sorted runes): 255 when r is absent
search(dm, r) ==
    IF \E x \in 1..Len(dm) : dm[x].r = r
    THEN dm[CHOOSE x \in 1..Len(dm) : dm[x].r = r].b
    ELSE 255

\* lines 152-166 of NewEncoding: the runes of the alphabet and where they start
alphabetRunes(encoder, rs) ==
    LET stop == {k \in 1..Len(rs) : k > 64 \/ rs[k].ch = RuneError}
        first == CHOOSE k \in stop : \A k2 \in stop : k <= k2
    IN  [panic |-> IF stop = {} THEN ""
                   ELSE IF first > 64 THEN "encoding alphabet is not 64-runes long"
                   ELSE "encoding alphabet contains invalid UTF-8 sequence",
         pos |-> [x \in 1..65 |->
                    IF x = 65 THEN Len(encoder)
                    ELSE IF x <= Len(rs) THEN rs[x].i ELSE 0],
         pairs |-> [j \in 1..64 |->
                      IF j <= Len(rs) THEN [r |-> rs[j].ch, b |-> j - 1]
                      ELSE [r |-> 0, b |-> 0]]]

\* lines 168-179 of NewEncoding; pos[x] is the code's pos[x-1]
alphabetTable(encoder, pos, pairs) ==
    LET sizes == {pos[x + 1] - pos[x] : x \in 1..64}
    IN  IF \E x \in 1..64 : pos[x] > pos[x + 1]
        THEN [panic |-> "slice bounds out of range"]
        ELSE [panic |-> "",
              encode |-> [v \in 1..64 |-> SubSeq(encoder, pos[v] + 1, pos[v + 1])],
              decode |-> sortPairs(pairs),
              maxSize |-> CHOOSE m \in sizes \cup {RuneLen(StdPadding), 1} :
                              \A z \in sizes \cup {RuneLen(StdPadding), 1} : z <= m,
              padChar |-> StdPadding,
              strict |-> FALSE,
              root |-> NilRoot]

\* (the CHOOSE ... \in {..} : TRUE below only bind a value to a name once)
NewEncoding(encoder) ==
    CHOOSE e \in {IF a.panic # "" THEN [panic |-> a.panic]
                  ELSE alphabetTable(encoder, a.pos, a.pairs) :
                  a \in {alphabetRunes(encoder, rs) : rs \in {RangeString(encoder, 1)}}} : TRUE

\* invalidPadding that lets LF through
C19_invalidPadding(padding) == padding = 13

\* lines 195-197: the padding is CR or LF
invalidPadding(padding) == padding = 13 \/ padding = 10

\* paddedSize that adds the size of the padding to maxSize
C21_paddedSize(maxSize, size) == maxSize + size

\* lines 206-210: maxSize after the padding of size bytes is taken in
paddedSize(maxSize, size) == IF size > maxSize THEN size ELSE maxSize

\* a derived configuration that keeps the recognizer of its receiver
C31_derivedRoot(e) == e.root

\* the root field of the &Encoding{...} literal that Strict and WithPadding
\* return: the literal names encode, decode, maxSize, padChar and strict
\* only, so that root is nil and once is unused
derivedRoot(e) == NilRoot

WithPadding(e, padding) ==
    IF invalidPadding(padding) THEN [panic |-> "invalid padding"]
    ELSE IF \E v \in 1..64 : DecodeRune(e.encode[v], 1).r = padding
    THEN [panic |-> "padding contained in alphabet"]
    ELSE [e EXCEPT !.maxSize = paddedSize(e.maxSize, RuneLen(padding)),
                   !.padChar = padding,
                   !.root = derivedRoot(e)]

Strict(e) == [e EXCEPT !.strict = TRUE, !.root = derivedRoot(e)]

-----------------------------------------------------------------------------
(* The recognizer.  buildDFA's pointer graph is an arena: nodes[id] is     *)
(* [v, children] where children names a table of tabs, so that nodes made  *)
(* with "children: root.children" share the root's table as in the code.   *)
(* A table maps the bytes that have a child to the child's id; a byte      *)
(* outside its domain is a nil child.                                      *)
rootNode == -1
midNode == -2
paddingNode == 64
NilNode == 0
RootId == 1

Child(g, n, b) ==
    LET t == g.tabs[g.nodes[n].children]
    IN  IF b \in DOMAIN t THEN t[b] ELSE NilNode

\* &node{v: v, children: make([]*node, 256)}; its id is Len(nodes)
AddNode(g, v) ==
    [nodes |-> Append(g.nodes, [v |-> v, children |-> Len(g.tabs) + 1]),
     tabs |-> Append(g.tabs, <<>>)]

\* n.children[b] = child
SetChild(g, n, b, child) ==
    [g EXCEPT !.tabs[g.nodes[n].children] = (b :> child) @@ @]

\* lines 59-67: follow entry[:len-1] from n, making the missing mid nodes
RECURSIVE walkEntry(_, _, _, _)
walkEntry(g, n, entry, idx) ==
    IF idx > Len(entry) - 1 THEN [g |-> g, n |-> n]
    ELSE IF Child(g, n, entry[idx]) = NilNode
    THEN CHOOSE w \in {walkEntry(SetChild(g1, n, entry[idx], Len(g1.nodes)),
                                 Len(g1.nodes), entry, idx + 1) :
                       g1 \in {AddNode(g, midNode)}} : TRUE
    ELSE CHOOSE w \in {walkEntry(g, m, entry, idx + 1) :
                       m \in {Child(g, n, entry[idx])}} : TRUE

\* lines 57-72: entries[i-1] ends in a node of value i-1 sharing root.children
addEntry(g, entry, v) ==
    CHOOSE r \in {SetChild([nodes |-> Append(w.g.nodes,
                                             [v |-> v,
                                              children |-> w.g.nodes[RootId].children]),
                            tabs |-> w.g.tabs],
                           w.n, entry[Len(entry)], Len(w.g.nodes) + 1) :
                  w \in {walkEntry(g, RootId, entry, 1)}} : TRUE

\* lines 57-72, "for i, entry := range entries": the iterations lo..hi of the
\* loop, taken as two halves one after the other
RECURSIVE addEntries(_, _, _, _)
addEntries(g0, entries, lo, hi) ==
    IF lo > hi THEN g0
    ELSE IF lo = hi THEN addEntry(g0, entries[lo], lo - 1)
    ELSE CHOOSE r \in {addEntries(g, entries, ((lo + hi) \div 2) + 1, hi) :
                       g \in {addEntries(g0, entries, lo, (lo + hi) \div 2)}} : TRUE

\* lines 84-100: follow buf[:l-1] from n (under root) and m (under pad) in
\* step, making the missing nodes with v: -1
\* lines 86-91 and 92-97: n.children[b] is made, with v: -1, if it is nil
ensureChild(g, n, b) ==
    IF Child(g, n, b) = NilNode
    THEN SetChild(AddNode(g, -1), n, b, Len(g.nodes) + 1)
    ELSE g

RECURSIVE walkPadding(_, _, _, _, _)
walkPadding(g, n, m, buf, idx) ==
    IF idx > Len(buf) - 1 THEN [g |-> g, n |-> n, m |-> m]
    ELSE CHOOSE w \in {walkPadding(g2, Child(g2, n, buf[idx]), Child(g2, m, buf[idx]),
                                   buf, idx + 1) :
                       g2 \in {ensureChild(g1, m, buf[idx]) :
                                 g1 \in {ensureChild(g, n, buf[idx])}}} : TRUE

\* lines 74-103
addPadding(g, padding) ==
    LET pad == Len(g.nodes) + 1
        buf == RuneBytes(padding)
    IN  IF padding = NoPadding THEN g
        ELSE CHOOSE r \in
                 {SetChild(SetChild(w.g, w.n, buf[Len(buf)], pad), w.m, buf[Len(buf)], pad) :
                     w \in {walkPadding(SetChild(SetChild(AddNode(g, paddingNode),
                                                          pad, 10, pad), pad, 13, pad),
                                        RootId, pad, buf, 1)}} : TRUE

\* rootLoops without the loop on CR
C28_rootLoops(g) == SetChild(g, RootId, 10, RootId)

\* lines 105-106: root.children['\n'] = root, root.children['\r'] = root
rootLoops(g) == SetChild(SetChild(g, RootId, 10, RootId), RootId, 13, RootId)

buildDFA(entries, padding) ==
    CHOOSE r \in
        {rootLoops(g2) :
            g2 \in {addPadding(g1, padding) :
                      g1 \in {addEntries([nodes |-> <<[v |-> rootNode, children |-> 1]>>,
                                          tabs |-> << <<>> >>],
                                         entries, 1, Len(entries))}}} : TRUE

\* Encoding.build: the new value of enc.root
build(enc) == buildDFA(enc.encode, enc.padChar)

\* enc.once.Do(enc.build): build runs if it has not run on this Encoding
buildOnce(enc) == IF enc.root = NilRoot THEN [enc EXCEPT !.root = build(enc)] ELSE enc

-----------------------------------------------------------------------------
(* The configurations of the model.                                        *)
encodeStd == StringOf(<<
    12354, 12356, 12358, 12360, 12362, 12363, 12365, 12367, 12369, 12371,
    12373, 12375, 12377, 12379, 12381, 12383, 12385, 12388, 12390, 12392,
    12394, 12395, 12396, 12397, 12398, 12399, 12402, 12405, 12408, 12411,
    12414, 12415, 12416, 12417, 12418, 12420, 12422, 12424, 12425, 12426,
    12427, 12428, 12429, 12431, 12364, 12366, 12368, 12370, 12372, 12374,
    12376, 12378, 12380, 12382, 12384, 12386, 12389, 12391, 12393, 12400,
    12403, 12406, 12409, 12412>>)

\* "ABCDEFGHIJKLMNOPQRSTUVWXYZabcdefghijklmnopqrstuvwxyz0123456789+/"
encodeAscii ==
    [x \in 1..64 |->
        IF x <= 26 THEN 64 + x
        ELSE IF x <= 52 THEN 96 + (x - 26)
        ELSE IF x <= 62 THEN 47 + (x - 52)
        ELSE IF x = 63 THEN 43 ELSE 47]

StdEncoding == NewEncoding(encodeStd)
RawStdEncoding == WithPadding(StdEncoding, NoPadding)
AsciiEncoding == NewEncoding(encodeAscii)

\* the *Encoding values the model's programs use
Encodings == <<
    StdEncoding,
    RawStdEncoding,
    Strict(StdEncoding),
    Strict(RawStdEncoding),
    AsciiEncoding,
    WithPadding(AsciiEncoding, 61),
    WithPadding(AsciiEncoding, NoPadding) >>

-----------------------------------------------------------------------------
(* Encoding.Encode.  A buffer is a sequence of its length; st is           *)
(* [di, dst, panic].  "CHOOSE r \in {f(x) : x \in {e}} : TRUE" is f(e),    *)
(* with e computed once.                                                   *)

\* di += copy(dst[di:], enc.encode[v])
putSym(enc, st, v) ==
    [st EXCEPT !.di = st.di + CopyLen(st.dst, st.di, enc.encode[v + 1]),
               !.dst = CopyAt(st.dst, st.di, enc.encode[v + 1])]

\* di += utf8.EncodeRune(dst[di:], enc.padChar), which panics on a short dst
putPad(enc, st) ==
    IF st.panic # "" THEN st
    ELSE IF Len(st.dst) - st.di < RuneLen(enc.padChar)
    THEN [st EXCEPT !.panic = "index out of range"]
    ELSE [st EXCEPT !.di = st.di + RuneLen(enc.padChar),
                    !.dst = CopyAt(st.dst, st.di, RuneBytes(enc.padChar))]

\* lines 241-246: one pass of the loop, on src[si], src[si+1], src[si+2]
encodeBlock(enc, st, val) ==
    putSym(enc, putSym(enc, putSym(enc, putSym(enc, st, (val \div 262144) % 64),
                                         (val \div 4096) % 64),
                            (val \div 64) % 64),
           val % 64)

\* lines 240-247
RECURSIVE encodeBlocks(_, _, _, _)
encodeBlocks(enc, st0, src, si) ==
    CHOOSE r \in
        {IF si >= (Len(src) \div 3) * 3 THEN st
         ELSE encodeBlocks(enc,
                           encodeBlock(enc, st, src[si + 1] * 65536 + src[si + 2] * 256
                                                  + src[si + 3]),
                           src, si + 3) :
            st \in {st0}} : TRUE

\* encodeTail that takes every remaining block for one of 2 bytes
C22_encodeTail(enc, st, remain, val) ==
    IF enc.padChar # NoPadding
    THEN putPad(enc, putSym(enc, st, (val \div 64) % 64))
    ELSE putSym(enc, st, (val \div 64) % 64)

\* lines 255-273: the remaining small block of remain bytes, val its bits
encodeTail(enc, st, remain, val) ==
    IF remain = 2
    THEN IF enc.padChar # NoPadding
         THEN putPad(enc, putSym(enc, st, (val \div 64) % 64))
         ELSE putSym(enc, st, (val \div 64) % 64)
    ELSE IF enc.padChar # NoPadding THEN putPad(enc, putPad(enc, st)) ELSE st

\* lines 249-273: what follows the loop, n the bytes the loop has taken
encodeRemain(enc, st, src, n) ==
    IF Len(src) - n = 0 THEN st
    ELSE encodeTail(enc,
                    putSym(enc,
                           putSym(enc, st, (src[n + 1] \div 4) % 64),
                           ((src[n + 1] * 65536
                               + (IF Len(src) - n = 2 THEN src[n + 2] * 256 ELSE 0))
                              \div 4096) % 64),
                    Len(src) - n,
                    src[n + 1] * 65536 + (IF Len(src) - n = 2 THEN src[n + 2] * 256 ELSE 0))

\* Encode(dst, src): [n, dst, panic]
Encode(enc, dst, src) ==
    CHOOSE r \in
        {[n |-> fin.di, dst |-> fin.dst, panic |-> fin.panic] :
            fin \in {IF Len(src) = 0 THEN [di |-> 0, dst |-> dst, panic |-> ""]
                     ELSE encodeRemain(enc, st1, src, (Len(src) \div 3) * 3) :
                     st1 \in {encodeBlocks(enc, [di |-> 0, dst |-> dst, panic |-> ""],
                                           src, 0)}}} : TRUE

\* EncodedLen that rounds the number of unpadded symbols down
C24_EncodedLen(enc, n) ==
    IF enc.padChar = NoPadding
    THEN ((n * 8) \div 6) * enc.maxSize
    ELSE (((n + 2) \div 3) * 4) * enc.maxSize

EncodedLen(enc, n) ==
    IF enc.padChar = NoPadding
    THEN ((n * 8 + 5) \div 6) * enc.maxSize
    ELSE (((n + 2) \div 3) * 4) * enc.maxSize

\* EncodeToString(src): [s, panic]
EncodeToString(enc, src) ==
    CHOOSE e \in {[s |-> SubSeq(r.dst, 1, r.n), panic |-> r.panic] :
                  r \in {Encode(enc, Zeros(EncodedLen(enc, Len(src))), src)}} : TRUE

-----------------------------------------------------------------------------
(* type encoder, encoder.Write and encoder.Close.  e is the encoder: err,  *)
(* buf and nbuf; e.out is scratch space that every use fills before it is  *)
(* read.  st holds a call: the encoder e, the rest p of the caller's       *)
(* bytes, the count n, the bytes the sink took in this call (sink), the    *)
(* number of calls of e.w.Write (calls) of which call number failAt fails  *)
(* (0: none), how the call ended (exit), the error returned and the panic. *)

\* len(e.out)
OutSize == 1024

\* the error a failing sink returns
ErrSink == -3

\* NewEncoder: &encoder{enc: enc, w: w}
NewEncoder == [err |-> NilErr, buf |-> <<0, 0, 0>>, nbuf |-> 0]

\* e.out[:], as far as Encode of n bytes can reach into it: Encode writes at
\* most EncodedLen(n) bytes
outSlice(enc, n) == Zeros(Min(OutSize, EncodedLen(enc, n)))

\* size := e.enc.Encode(e.out[:], src); _, e.err = e.w.Write(e.out[:size])
flush(enc, st, src) ==
    CHOOSE r \in
        {IF x.panic # "" THEN [st EXCEPT !.exit = "panic", !.panic = x.panic]
         ELSE IF st.calls + 1 = st.failAt
         THEN [st EXCEPT !.calls = st.calls + 1, !.e.err = ErrSink]
         ELSE [st EXCEPT !.calls = st.calls + 1, !.e.err = NilErr,
                         !.sink = st.sink \o SubSeq(x.dst, 1, x.n)] :
            x \in {Encode(enc, outSlice(enc, Len(src)), src)}} : TRUE

\* return n, e.err after a call of the sink that failed
sinkFailed(st) == [st EXCEPT !.exit = "return", !.err = st.e.err]

\* lines 309-326: the leading fringe
writeFringe(enc, st) ==
    IF st.e.nbuf = 0 THEN st
    ELSE CHOOSE r \in
        {IF s1.e.nbuf < 3 THEN [s1 EXCEPT !.exit = "return", !.err = NilErr]
         ELSE CHOOSE r2 \in
                 {IF s2.exit # "" THEN s2
                  ELSE IF s2.e.err # NilErr THEN sinkFailed(s2)
                  ELSE [s2 EXCEPT !.e.nbuf = 0] :
                     s2 \in {flush(enc, s1, s1.e.buf)}} : TRUE :
            s1 \in {[st EXCEPT
                       !.e.buf = [x \in 1..3 |->
                                    IF x > st.e.nbuf /\ x <= st.e.nbuf + i
                                    THEN st.p[x - st.e.nbuf] ELSE st.e.buf[x]],
                       !.e.nbuf = st.e.nbuf + i,
                       !.n = st.n + i,
                       !.p = SubSeqFrom(st.p, i + 1)] :
                    i \in {Min(Len(st.p), 3 - st.e.nbuf)}}} : TRUE

\* batch that does not round down to whole 3-byte blocks
C14_batch(enc, plen) == Min(((OutSize \div enc.maxSize) \div 4) * 3, plen)

\* lines 330-334: the number of bytes of p the next batch encodes
batch(enc, plen) ==
    IF ((OutSize \div enc.maxSize) \div 4) * 3 > plen
    THEN plen - (plen % 3)
    ELSE ((OutSize \div enc.maxSize) \div 4) * 3

\* lines 329-341: the large interior chunks
RECURSIVE writeChunks(_, _)
writeChunks(enc, st0) ==
    CHOOSE r \in
        {IF st.exit # "" \/ Len(st.p) < 3 THEN st
         ELSE CHOOSE r2 \in
                 {IF s2.exit # "" THEN s2
                  ELSE IF s2.e.err # NilErr THEN sinkFailed(s2)
                  ELSE writeChunks(enc, [s2 EXCEPT !.n = s2.n + nn,
                                                   !.p = SubSeqFrom(s2.p, nn + 1)]) :
                     s2 \in {flush(enc, st, SubSeq(st.p, 1, nn))}} : TRUE :
            st \in {st0}, nn \in {batch(enc, Len(st0.p))}} : TRUE

\* writeTail that counts the remainder but does not keep it
C29_writeTail(st) ==
    IF st.exit # "" THEN st
    ELSE [st EXCEPT !.e.nbuf = 0, !.n = st.n + Len(st.p), !.exit = "return", !.err = NilErr]

\* lines 344-347: the trailing fringe
writeTail(st) ==
    IF st.exit # "" THEN st
    ELSE [st EXCEPT !.e.buf = [x \in 1..3 |-> IF x <= Len(st.p) THEN st.p[x]
                                             ELSE st.e.buf[x]],
                    !.e.nbuf = Len(st.p),
                    !.n = st.n + Len(st.p),
                    !.exit = "return", !.err = NilErr]

\* poisoned that forgets the error
C16_poisoned(e) == e.err # NilErr /\ e.nbuf > 3

\* lines 305-307: an error was recorded
poisoned(e) == e.err # NilErr

\* e.Write(p): [e, n, err, sink, calls, panic]
Write(enc, e, p, failAt) ==
    CHOOSE r \in
        {[e |-> st.e, n |-> st.n, err |-> st.err, sink |-> st.sink, calls |-> st.calls,
          panic |-> st.panic] :
            st \in {IF poisoned(e)
                    THEN [e |-> e, p |-> p, n |-> 0, sink |-> <<>>, calls |-> 0,
                          failAt |-> failAt, exit |-> "return", err |-> e.err,
                          panic |-> ""]
                    ELSE writeTail(writeChunks(enc, writeFringe(enc,
                             [e |-> e, p |-> p, n |-> 0, sink |-> <<>>, calls |-> 0,
                              failAt |-> failAt, exit |-> "", err |-> NilErr,
                              panic |-> ""])))}} : TRUE

\* e.Close(): [e, n, err, sink, calls, panic]
Close(enc, e, failAt) ==
    CHOOSE r \in
        {[e |-> st.e, n |-> 0, err |-> st.e.err, sink |-> st.sink, calls |-> st.calls,
          panic |-> st.panic] :
            st \in {IF e.err = NilErr /\ e.nbuf > 0
                    THEN CHOOSE r2 \in
                            {IF s2.exit # "" THEN s2 ELSE [s2 EXCEPT !.e.nbuf = 0] :
                                s2 \in {flush(enc,
                                              [e |-> e, p |-> <<>>, n |-> 0,
                                               sink |-> <<>>, calls |-> 0,
                                               failAt |-> failAt, exit |-> "",
                                               err |-> NilErr, panic |-> ""],
                                              SubSeq(e.buf, 1, e.nbuf))}} : TRUE
                    ELSE [e |-> e, p |-> <<>>, n |-> 0, sink |-> <<>>, calls |-> 0,
                          failAt |-> failAt, exit |-> "", err |-> NilErr,
                          panic |-> ""]}} : TRUE

-----------------------------------------------------------------------------
(* Encoding.Decode.  s holds the locals of Decode; exit tells how the main *)
(* loop was left ("" while it runs, "return", "break", "end", "panic");    *)
(* why names the return statement taken and at the value of i there.       *)

\* uint(dbuf[0])<<18 | uint(dbuf[1])<<12 | uint(dbuf[2])<<6 | uint(dbuf[3])
quantum(dbuf) == dbuf[1] * 262144 + dbuf[2] * 4096 + dbuf[3] * 64 + dbuf[4]
\* byte2 that is one too large
C30_byte2(val) == ((val \div 65536) + 1) % 256
byte2(val) == (val \div 65536) % 256
\* byte1 with the top bit of the byte lost
C1_byte1(val) == (val \div 256) % 128
byte1(val) == (val \div 256) % 256
byte0(val) == val % 256

\* dst[k+0], dst[k+1], ... = bytes (the caller has checked the indexes)
store(dst, k, bytes) ==
    [x \in 1..Len(dst) |-> IF x > k /\ x <= k + Len(bytes) THEN bytes[x - k] ELSE dst[x]]

\* incorrectPadding that lets a padding symbol into slot 1
C10_incorrectPadding(j) == j % 4 \in {0}

\* lines 401-405: a padding symbol in slot 0 or 1 of the quantum
incorrectPadding(j) == j % 4 \in {0, 1}

\* a pad counter that counts every padding symbol twice
C32_padCountAfter(padCount) == padCount + 2

\* lines 406 and 578: padCount++
padCountAfter(padCount) == padCount + 1

\* lastRuneAfter that takes lastRune one byte past the symbol
C33_lastRuneAfter(nv, i, lastRune) == IF nv < 64 THEN i + 2 ELSE lastRune

\* lastRuneAfter that also moves lastRune past a padding symbol
C9_lastRuneAfter(nv, i, lastRune) == IF nv <= 64 THEN i + 1 ELSE lastRune

\* lines 443-445: lastRune after the symbol ending at byte i
lastRuneAfter(nv, i, lastRune) == IF nv < 64 THEN i + 1 ELSE lastRune

\* line 447: the input ended inside a symbol
invalidRune(nv) == nv < 0 /\ nv # rootNode

\* danglingOffset that always reports the end of the input
C7_danglingOffset(padCount, lastBlock, i) == i

\* lines 455-458: the offset reported for a dangling quantum of padded input
danglingOffset(padCount, lastBlock, i) == IF padCount = 0 THEN lastBlock ELSE i

\* strictViolation that does not look at enc.strict
C13_strictViolation(enc, val, mask) == (val % mask) # 0

\* lines 425, 433, 471, 478: strict mode and the discarded bits are not zero
strictViolation(enc, val, mask) == enc.strict /\ (val % mask) # 0

return(s, err, why) == [s EXCEPT !.exit = "return", !.err = err, !.why = why, !.at = s.i]
panic(s, what) == [s EXCEPT !.exit = "panic", !.panic = what, !.at = s.i]

\* lines 412-442: the quantum is full; i is still the index of its last byte
convert(enc, s) ==
    LET val == quantum(s.dbuf)
        s1 == [s EXCEPT !.lastBlock = s.i + 1]
    IN  IF s.padCount = 0
        THEN IF s.k + 3 > Len(s.dst) THEN panic(s1, "index out of range")
             ELSE [s1 EXCEPT !.dst = store(s.dst, s.k, <<byte2(val), byte1(val), byte0(val)>>),
                             !.k = s.k + 3]
        ELSE IF s.padCount = 1
        THEN IF s.k + 2 > Len(s.dst) THEN panic(s1, "index out of range")
             ELSE IF strictViolation(enc, val, 256)
             THEN return([s1 EXCEPT !.dst = store(s.dst, s.k, <<byte2(val), byte1(val)>>)],
                         CorruptInputError(s.lastRune), "strict")
             ELSE [s1 EXCEPT !.dst = store(s.dst, s.k, <<byte2(val), byte1(val)>>),
                             !.k = s.k + 2, !.i = s.i + 1, !.exit = "break"]
        ELSE IF s.padCount = 2
        THEN IF s.k + 1 > Len(s.dst) THEN panic(s1, "index out of range")
             ELSE IF strictViolation(enc, val, 65536)
             THEN return([s1 EXCEPT !.dst = store(s.dst, s.k, <<byte2(val)>>)],
                         CorruptInputError(s.lastRune), "strict")
             ELSE [s1 EXCEPT !.dst = store(s.dst, s.k, <<byte2(val)>>),
                             !.k = s.k + 1, !.i = s.i + 1, !.exit = "break"]
        ELSE return(s1, CorruptInputError(s.lastRune), "over-padding")

\* lines 408-445: dbuf[j%4] = byte(v), j++, the conversion of a full quantum
\* and the update of lastRune; nv is n.v and v the value stored
putQuantum(enc, s0, nv, v) ==
    CHOOSE r \in
        {IF s.exit # "" THEN s
         ELSE [s EXCEPT !.lastRune = lastRuneAfter(nv, s.i, s.lastRune), !.i = s.i + 1] :
            s \in {IF (s0.j + 1) % 4 = 0
                   THEN convert(enc, [s0 EXCEPT !.dbuf[(s0.j % 4) + 1] = v, !.j = s0.j + 1])
                   ELSE [s0 EXCEPT !.dbuf[(s0.j % 4) + 1] = v, !.j = s0.j + 1]}} : TRUE

\* lines 396-445: one pass of the main loop once n = n.children[b] is not nil
decodeNode(enc, s, nv) ==
    IF nv < 0 THEN [s EXCEPT !.i = s.i + 1]
    ELSE IF nv = 64
    THEN IF incorrectPadding(s.j)
         THEN return(s, CorruptInputError(s.lastRune), "incorrect padding")
         ELSE putQuantum(enc, [s EXCEPT !.padCount = padCountAfter(s.padCount)], nv, 0)
    ELSE putQuantum(enc, s, nv, nv)

\* lines 390-445: one pass of the main loop, on src[i]
decodeByte(enc, g, src, s) ==
    CHOOSE r \in
        {IF n = NilNode THEN return(s, CorruptInputError(s.lastRune), "invalid symbol")
         ELSE decodeNode(enc, [s EXCEPT !.n = n], g.nodes[n].v) :
            n \in {Child(g, s.n, src[s.i + 1])}} : TRUE

\* lines 388-446
RECURSIVE decodeLoop(_, _, _, _)
decodeLoop(enc, g, src, s0) ==
    CHOOSE r \in
        {IF s.exit # "" THEN s
         ELSE IF s.i >= Len(src) THEN [s EXCEPT !.exit = "end"]
         ELSE decodeLoop(enc, g, src, decodeByte(enc, g, src, s)) :
            s \in {s0}} : TRUE

\* tailInvalid that lets a final quantum of one symbol through
C12_tailInvalid(j) == j % 4 \in {0}

\* lines 466-468: case 0, 1 of the final partial quantum
tailInvalid(j) == j % 4 \in {0, 1}

\* lines 461-482: the final partial quantum of unpadded input
decodeTail(enc, s) ==
    LET val == quantum([x \in 1..4 |-> IF x > s.j % 4 THEN 0 ELSE s.dbuf[x]])
    IN  IF tailInvalid(s.j) THEN return(s, CorruptInputError(s.i), "one symbol left")
        ELSE IF s.j % 4 = 2
        THEN IF s.k + 1 > Len(s.dst) THEN panic(s, "index out of range")
             ELSE IF strictViolation(enc, val, 65536)
             THEN return([s EXCEPT !.dst = store(s.dst, s.k, <<byte2(val)>>)],
                         CorruptInputError(s.lastRune), "strict")
             ELSE [s EXCEPT !.dst = store(s.dst, s.k, <<byte2(val)>>), !.k = s.k + 1]
        ELSE IF s.k + 2 > Len(s.dst) THEN panic(s, "index out of range")
             ELSE IF strictViolation(enc, val, 256)
             THEN return([s EXCEPT !.dst = store(s.dst, s.k, <<byte2(val), byte1(val)>>)],
                         CorruptInputError(s.lastRune), "strict")
             ELSE [s EXCEPT !.dst = store(s.dst, s.k, <<byte2(val), byte1(val)>>),
                            !.k = s.k + 2]

\* lines 484-489: the first byte at or after i that is neither LF nor CR, or -1
trailingGarbage(src, i) ==
    LET bad == {x \in i..(Len(src) - 1) : src[x + 1] # 10 /\ src[x + 1] # 13}
    IN  IF bad = {} THEN -1 ELSE CHOOSE x \in bad : \A y \in bad : x <= y

\* lines 484-491: the scan for trailing garbage and the final return
decodeRest(src, s, tg) ==
    IF s.exit \in {"return", "panic"} THEN s
    ELSE IF tg # -1
    THEN [s EXCEPT !.exit = "return", !.err = CorruptInputError(tg),
                   !.why = "trailing garbage", !.at = tg]
    ELSE [s EXCEPT !.exit = "return", !.err = NilErr, !.why = "ok", !.at = Len(src)]

\* lines 447-491: what follows the main loop
decodeEnd(enc, g, src, s) ==
    IF invalidRune(g.nodes[s.n].v)
    THEN return(s, CorruptInputError(s.i), "invalid rune")
    ELSE IF s.j % 4 # 0 /\ enc.padChar # NoPadding
    THEN return(s, CorruptInputError(danglingOffset(s.padCount, s.lastBlock, s.i)),
                "dangling quantum")
    ELSE IF s.j % 4 # 0
    THEN CHOOSE r \in {decodeRest(src, s1, trailingGarbage(src, s1.i)) :
                       s1 \in {decodeTail(enc, s)}} : TRUE
    ELSE decodeRest(src, s, trailingGarbage(src, s.i))

\* lines 376-386: the locals of Decode before the main loop
decodeStart(dst) ==
    [i |-> 0, j |-> 0, k |-> 0, n |-> RootId, padCount |-> 0,
     lastBlock |-> 0, lastRune |-> 0, dbuf |-> <<0, 0, 0, 0>>,
     dst |-> dst, exit |-> "", err |-> NilErr, why |-> "",
     at |-> 0, panic |-> ""]

\* a Decode that returns the count of the bytes written so far with an error
C34_returned(k, err) == k

\* the count that Decode returns: `return 0, CorruptInputError(...)` on
\* every error, `return k, nil` at line 491
returned(k, err) == IF err = NilErr THEN k ELSE 0

\* lines 447-491: Decode once the main loop is left with the locals s1;
\* the result is [n, err, dst, panic, why, at]
decodeReturn(enc, g, src, s1) ==
    CHOOSE r \in
        {[n |-> returned(s.k, s.err), err |-> s.err, dst |-> s.dst,
          panic |-> s.panic, why |-> s.why, at |-> s.at] :
            s \in {IF s1.exit \in {"return", "panic"} THEN s1
                   ELSE decodeEnd(enc, g, src, [s1 EXCEPT !.exit = ""])}} : TRUE

\* enc.Decode(dst, src): [n, err, dst, panic, why, at]
Decode(enc, dst, src) ==
    CHOOSE r \in
        {decodeReturn(enc, g, src, decodeLoop(enc, g, src, decodeStart(dst))) :
            g \in {buildOnce(enc).root}} : TRUE

\* DecodedLen that takes every configuration for a padded one
C26_DecodedLen(enc, n) == (n \div 4) * 3

DecodedLen(enc, n) ==
    IF enc.padChar = NoPadding THEN (n * 6) \div 8 ELSE (n \div 4) * 3

\* enc.DecodeString(s): [out, err, panic, why, at]
DecodeString(enc, s) ==
    CHOOSE d \in {[out |-> SubSeq(r.dst, 1, r.n), err |-> r.err, panic |-> r.panic,
                   why |-> r.why, at |-> r.at] :
                  r \in {Decode(enc, Zeros(DecodedLen(enc, Len(s))), s)}} : TRUE

-----------------------------------------------------------------------------
(* type decoder and decoder.Read.  d is the decoder: d.buf holds the bytes *)
(* buf[0:nbuf], so that nbuf is Len(d.buf).  st holds a call of Read: the  *)
(* decoder d, the length p left of the caller's buffer, the bytes w        *)
(* written to it and counted in n, how the call ended (exit), the error    *)
(* returned (err) and the run-time panic, if any.                          *)

\* len(d.buf)
BufSize == 4096

\* the sizes of the short chunks a wrapped reader may deliver
ChunkSizes == {1, 4, 13}

\* NewDecoder: &decoder{enc: enc, r: r, state: enc.root}
NewDecoder ==
    [state |-> RootId, err |-> NilErr, readErr |-> NilErr, n |-> 0, padCount |-> 0,
     lastBlock |-> 0, lastRune |-> 0, buf |-> <<>>, pos |-> 0, expectEOF |-> FALSE,
     dbuf |-> <<0, 0, 0, 0>>, ndbuf |-> 0, out |-> <<0, 0, 0>>, nout |-> 0]

\* d.r.Read(b) with len(b) = L, by the contract of io.Reader: the possible
\* [c, err].  A reader that is not chunked is a strings.Reader: it delivers
\* all that fits and reports io.EOF once it is exhausted, also to an empty b;
\* a chunked one may deliver less and returns 0, nil to an empty b.
srcRead(src, L, short) ==
    IF L = 0
    THEN IF src = <<>> /\ ~short THEN {[c |-> 0, err |-> EOF]}
         ELSE {[c |-> 0, err |-> NilErr]}
    ELSE IF src = <<>> THEN {[c |-> 0, err |-> EOF]}
    ELSE {[c |-> Min(L, Len(src)), err |-> NilErr]}
         \cup (IF short
               THEN {[c |-> k, err |-> NilErr] : k \in {x \in ChunkSizes : x <= Min(L, Len(src))}}
               ELSE {})

\* lines 542-545: the refill loop; r is [d, src, nn, panic]
RECURSIVE refillLoop(_, _, _)
refillLoop(enc, r, short) ==
    IF r.panic # "" \/ ~(Len(r.d.buf) < 4 * enc.maxSize /\ r.d.readErr = NilErr) THEN {r}
    ELSE IF r.nn < Len(r.d.buf)
    THEN {[r EXCEPT !.panic = "slice bounds out of range"]}
    ELSE UNION {refillLoop(enc,
                           [r EXCEPT !.d.buf = r.d.buf \o SubSeq(r.src, 1, x.c),
                                     !.d.readErr = x.err,
                                     !.src = SubSeqFrom(r.src, x.c + 1),
                                     !.nn = x.c],
                           short) :
                   x \in srcRead(r.src, r.nn - Len(r.d.buf), short)}

\* lines 532-546: the possible [d, src, nn, panic] after the refill
refill(enc, d, src, plen, short) ==
    IF d.pos # Len(d.buf) THEN {[d |-> d, src |-> src, nn |-> 0, panic |-> ""]}
    ELSE refillLoop(enc,
                    [d |-> [d EXCEPT !.pos = 0, !.buf = <<>>], src |-> src,
                     nn |-> Min(Max((plen \div 3) * 4 * enc.maxSize, 4 * enc.maxSize),
                                BufSize),
                     panic |-> ""],
                    short)

\* d.err = err; return n, d.err
retErr(st, err) == [st EXCEPT !.d.err = err, !.err = err, !.exit = "return"]

\* the loop's post statement: d.pos, d.n = d.pos+1, d.n+1
advance(st) == [st EXCEPT !.d.pos = st.d.pos + 1, !.d.n = st.d.n + 1]

\* lines 548-558: only CR and LF may follow the padding
readExpectEOF(st) ==
    LET bad == {x \in (st.d.pos + 1)..Len(st.d.buf) : st.d.buf[x] # 10 /\ st.d.buf[x] # 13}
        stop == IF bad = {} THEN Len(st.d.buf)
                ELSE (CHOOSE x \in bad : \A y \in bad : x <= y) - 1
    IN  IF bad # {}
        THEN retErr([st EXCEPT !.d.pos = stop, !.d.n = st.d.n + (stop - st.d.pos)],
                  CorruptInputError(st.d.n + (stop - st.d.pos)))
        ELSE retErr([st EXCEPT !.d.pos = stop, !.d.n = st.d.n + (stop - st.d.pos)],
                  st.d.readErr)

\* d.pos++; d.n++; d.expectEOF = true; return n, nil
readPadded(st, nout) ==
    [st EXCEPT !.d.nout = nout, !.d.pos = st.d.pos + 1, !.d.n = st.d.n + 1,
               !.d.expectEOF = TRUE, !.exit = "return", !.err = NilErr]

\* lines 585-630: the quantum is full
readConvert(enc, st) ==
    LET val == quantum(st.d.dbuf)
    IN  IF st.d.padCount = 0 /\ st.p >= 3
        THEN [st EXCEPT !.w = st.w \o <<byte2(val), byte1(val), byte0(val)>>,
                        !.p = st.p - 3]
        ELSE IF st.d.padCount = 0
        THEN [st EXCEPT !.d.out = <<byte2(val), byte1(val), byte0(val)>>, !.d.nout = 3]
        ELSE IF st.d.padCount = 1
        THEN IF strictViolation(enc, val, 256)
             THEN retErr([st EXCEPT !.d.out = store(st.d.out, 0, <<byte2(val), byte1(val)>>)],
                       CorruptInputError(st.d.lastRune))
             ELSE readPadded([st EXCEPT !.d.out = store(st.d.out, 0,
                                                       <<byte2(val), byte1(val)>>)], 2)
        ELSE IF st.d.padCount = 2
        THEN IF strictViolation(enc, val, 65536)
             THEN retErr([st EXCEPT !.d.out = store(st.d.out, 0, <<byte2(val)>>)],
                       CorruptInputError(st.d.lastRune))
             ELSE readPadded([st EXCEPT !.d.out = store(st.d.out, 0, <<byte2(val)>>)], 1)
        ELSE retErr(st, CorruptInputError(st.d.lastRune))

\* lines 581-634: d.dbuf[d.ndbuf] = byte(v), d.ndbuf++, the conversion of a
\* full quantum and the update of d.lastRune; nv is d.state.v
readQuantum(enc, st0, nv, v) ==
    CHOOSE r \in
        {IF st.exit # "" THEN st
         ELSE advance([st EXCEPT !.d.lastRune = lastRuneAfter(nv, st.d.n, st.d.lastRune)]) :
            st \in {IF st0.d.ndbuf + 1 = 4
                    THEN readConvert(enc, [st0 EXCEPT !.d.dbuf[st0.d.ndbuf + 1] = v,
                                                      !.d.ndbuf = 0,
                                                      !.d.lastBlock = st0.d.n + 1])
                    ELSE [st0 EXCEPT !.d.dbuf[st0.d.ndbuf + 1] = v,
                                     !.d.ndbuf = st0.d.ndbuf + 1]}} : TRUE

\* lines 568-634: one pass of the main loop once d.state is not nil
readNode(enc, st, nv) ==
    IF nv < 0 THEN advance(st)
    ELSE IF nv = 64
    THEN IF st.d.ndbuf \in {0, 1}
         THEN retErr(st, CorruptInputError(st.d.lastRune))
         ELSE readQuantum(enc, [st EXCEPT !.d.padCount = padCountAfter(st.d.padCount)], nv, 0)
    ELSE readQuantum(enc, st, nv, nv)

\* lines 560-634: one pass of the main loop, on d.buf[d.pos]
readByte(enc, g, st) ==
    CHOOSE r \in
        {IF n = NilNode
         THEN retErr([st EXCEPT !.d.state = n], CorruptInputError(st.d.lastRune))
         ELSE readNode(enc, [st EXCEPT !.d.state = n], g.nodes[n].v) :
            n \in {Child(g, st.d.state, st.d.buf[st.d.pos + 1])}} : TRUE

\* lines 560-635
RECURSIVE readLoop(_, _, _)
readLoop(enc, g, st0) ==
    CHOOSE r \in
        {IF st.exit # "" THEN st
         ELSE IF st.d.pos >= Len(st.d.buf) THEN st
         ELSE readLoop(enc, g, readByte(enc, g, st)) :
            st \in {st0}} : TRUE

\* lines 654-681: the final partial quantum of an unpadded stream; eof is the
\* value of d.err at this point
readTail(enc, st, eof) ==
    LET val == quantum(st.d.dbuf)
    IN  IF st.d.ndbuf = 1 THEN retErr(st, CorruptInputError(st.d.n))
        ELSE IF st.p < st.d.ndbuf - 1
        THEN [st EXCEPT !.exit = "panic", !.panic = "index out of range"]
        ELSE IF strictViolation(enc, val, IF st.d.ndbuf = 2 THEN 65536 ELSE 256)
        THEN retErr(st, CorruptInputError(st.d.lastRune))
        ELSE retErr([st EXCEPT !.w = st.w \o (IF st.d.ndbuf = 2 THEN <<byte2(val)>>
                                               ELSE <<byte2(val), byte1(val)>>),
                               !.p = st.p - (st.d.ndbuf - 1),
                               !.d.expectEOF = TRUE],
                    eof)

\* lines 636-683: what follows the main loop; eof is the value of d.err after
\* the check for an invalid rune
readEnd(enc, st, eof) ==
    IF st.d.readErr # EOF THEN retErr(st, st.d.readErr)
    ELSE IF st.d.ndbuf = 0 THEN retErr(st, eof)
    ELSE IF enc.padChar # NoPadding
    THEN retErr(st, CorruptInputError(danglingOffset(st.d.padCount, st.d.lastBlock, st.d.n)))
    ELSE readTail(enc,
                  [st EXCEPT !.d.dbuf = [x \in 1..4 |-> IF x > st.d.ndbuf THEN 0
                                                       ELSE st.d.dbuf[x]]],
                  eof)

\* lines 548-684: Read once the buffer is refilled
readBody(enc, st0) ==
    IF st0.d.expectEOF THEN readExpectEOF(st0)
    ELSE CHOOSE r \in
             {IF st.exit # "" THEN st
              ELSE readEnd(enc, st,
                           IF invalidRune(enc.root.nodes[st.d.state].v)
                           THEN CorruptInputError(st.d.n) ELSE EOF) :
                 st \in {readLoop(enc, enc.root, st0)}} : TRUE

\* lines 520-525: leftover decoded output from the last Read
readCarry(d, plen) ==
    [d |-> [d EXCEPT !.nout = d.nout - Min(plen, d.nout),
                     !.out = [x \in 1..3 |-> IF x + Min(plen, d.nout) <= 3
                                            THEN d.out[x + Min(plen, d.nout)]
                                            ELSE d.out[x]]],
     w |-> SubSeq(d.out, 1, Min(plen, d.nout)), err |-> NilErr, panic |-> ""]

\* what a call of Read leaves: the decoder, the wrapped reader's bytes, the
\* bytes returned, the error returned and the panic
readResult(st, src) ==
    [d |-> st.d, src |-> src, w |-> st.w, err |-> st.err, panic |-> st.panic]

\* d.Read(p) with len(p) = plen, the wrapped reader holding src: the possible
\* results
Read(enc, d, src, plen, short) ==
    IF d.nout > 0
    THEN {[d |-> c.d, src |-> src, w |-> c.w, err |-> c.err, panic |-> c.panic] :
             c \in {readCarry(d, plen)}}
    ELSE IF d.err # NilErr
    THEN {[d |-> d, src |-> src, w |-> <<>>, err |-> d.err, panic |-> ""]}
    ELSE {IF r.panic # ""
          THEN [d |-> r.d, src |-> r.src, w |-> <<>>, err |-> NilErr, panic |-> r.panic]
          ELSE readResult(readBody(enc, [d |-> r.d, p |-> plen, w |-> <<>>, exit |-> "",
                                         err |-> NilErr, panic |-> ""]),
                          r.src) :
             r \in refill(enc, d, src, plen, short)}

-----------------------------------------------------------------------------
(* The texts of the model.  A text is kept together with its tokens: the   *)
(* whole symbols, CR/LF bytes and broken pieces it was put together from.  *)
LF == 10
CR == 13

\* the bytes handed to the encoder are drawn from these
DataBytes == {0, 102, 255}

RECURSIVE Flatten(_)
Flatten(ts) == IF ts = <<>> THEN <<>> ELSE Head(ts).b \o Flatten(Tail(ts))

\* byte offset just after token idx (0 before the first token)
RECURSIVE EndPos(_, _)
EndPos(ts, idx) == IF idx = 0 THEN 0 ELSE EndPos(ts, idx - 1) + Len(ts[idx].b)

\* the kind of a code point under a configuration, by decodeMap.search
KindOf(enc, r) ==
    IF search(enc.decode, r) # 255 THEN "sym"
    ELSE IF r = enc.padChar THEN "pad"
    ELSE IF r = LF \/ r = CR THEN "nl"
    ELSE "bad"

\* a text cut at its code points
Tokenize(enc, s) ==
    CHOOSE ts \in
        {[x \in 1..Len(rs) |->
            [k |-> KindOf(enc, rs[x].ch),
             b |-> SubSeq(s, rs[x].i + 1,
                          IF x = Len(rs) THEN Len(s) ELSE rs[x + 1].i)]] :
            rs \in {RangeString(s, 1)}} : TRUE

Sym(enc, v) == [k |-> "sym", b |-> enc.encode[v + 1]]
Pad(enc) == [k |-> "pad", b |-> RuneBytes(enc.padChar)]
Cut(bytes) == SubSeq(bytes, 1, Len(bytes) - 1)

\* the pieces a hand-built text is made of
Tokens(enc) ==
    {Sym(enc, 0), Sym(enc, 1), [k |-> "nl", b |-> <<LF>>], [k |-> "nl", b |-> <<CR>>],
     [k |-> "bad", b |-> <<33>>]}
    \cup (IF Len(enc.encode[1]) > 1 THEN {[k |-> "tsym", b |-> Cut(enc.encode[1])]} ELSE {})
    \cup (IF enc.padChar # NoPadding THEN {Pad(enc)} ELSE {})
    \cup (IF enc.padChar # NoPadding /\ Len(RuneBytes(enc.padChar)) > 1
          THEN {[k |-> "tpad", b |-> Cut(RuneBytes(enc.padChar))]} ELSE {})

RECURSIVE SeqsUpTo(_, _)
SeqsUpTo(S, n) ==
    IF n = 0 THEN {<<>>}
    ELSE LET shorter == SeqsUpTo(S, n - 1)
         IN  shorter \cup {Append(q, x) : q \in {y \in shorter : Len(y) = n - 1}, x \in S}

NoResult == [out |-> <<>>, err |-> NilErr, panic |-> "", why |-> "", at |-> 0]
NoDecoder == [state |-> NilNode]
NoWriter == [op |-> ""]
NoConf == [op |-> ""]
NoBuffer == [n |-> 0, dst |-> <<>>, len |-> 0]
NoOnce == [procs |-> <<>>]
NoReencode == [from |-> ""]
NoLoop == [exit |-> "none"]

-----------------------------------------------------------------------------
(* Spec: a program that encodes data and decodes it back, possibly after   *)
(* CR/LF bytes were inserted, or that decodes a hand-built text.           *)
Init ==
    /\ cfg \in 1..Len(Encodings)
    /\ encoding = buildOnce(Encodings[cfg])
    /\ pc = "start"
    /\ data = <<>>
    /\ text = <<>>
    /\ toks = <<>>
    /\ steps = 0
    /\ res = NoResult
    /\ dec = NoDecoder
    /\ rest = <<>>
    /\ chunked = FALSE
    /\ got = <<>>
    /\ rerr = NilErr
    /\ minp = 0
    /\ panicked = ""
    /\ wr = NoWriter
    /\ conf = NoConf
    /\ ebuf = NoBuffer
    /\ once = NoOnce
    /\ re = NoReencode
    /\ loop = NoLoop

streamVars == <<dec, rest, chunked, got, rerr, minp>>

\* text := enc.EncodeToString(b)
DoEncodeToString ==
    /\ pc = "start"
    /\ \E b \in SeqsUpTo(DataBytes, MaxLen) :
          \E r \in {EncodeToString(encoding, b)} :
              /\ data' = b
              /\ text' = r.s
              /\ toks' = Tokenize(encoding, r.s)
              /\ panicked' = r.panic
    /\ pc' = "encoded"
    /\ UNCHANGED <<wr, conf, ebuf, once, re, loop, cfg, encoding, steps, res, streamVars>>

\* a CR or LF byte is inserted at a symbol boundary of the encoded text
InsertNewline ==
    /\ pc = "encoded"
    /\ panicked = ""
    /\ steps < MaxNL
    /\ \E at \in 0..Len(toks), nl \in {LF, CR} :
          /\ toks' = SubSeq(toks, 1, at) \o <<[k |-> "nl", b |-> <<nl>>]>>
                        \o SubSeq(toks, at + 1, Len(toks))
          /\ text' = SubSeq(text, 1, EndPos(toks, at)) \o <<nl>>
                        \o SubSeq(text, EndPos(toks, at) + 1, Len(text))
    /\ steps' = steps + 1
    /\ UNCHANGED <<wr, conf, ebuf, once, re, loop, cfg, encoding, pc, data, res, panicked, streamVars>>

\* one more piece is appended to a hand-built text
AppendToken ==
    /\ pc \in {"start", "built"}
    /\ steps < MaxTok
    /\ \E t \in Tokens(encoding) :
          /\ toks' = Append(toks, t)
          /\ text' = text \o t.b
    /\ steps' = steps + 1
    /\ pc' = "built"
    /\ UNCHANGED <<wr, conf, ebuf, once, re, loop, cfg, encoding, data, res, panicked, streamVars>>

\* a whole quantum of four alphabet symbols is appended to a hand-built text
AppendQuantum ==
    /\ pc \in {"start", "built"}
    /\ steps < MaxTok
    /\ LET q == [x \in 1..4 |-> Sym(encoding, 0)]
       IN  /\ toks' = toks \o q
           /\ text' = text \o Flatten(q)
    /\ steps' = steps + 1
    /\ pc' = "built"
    /\ UNCHANGED <<wr, conf, ebuf, once, re, loop, cfg, encoding, data, res, panicked, streamVars>>

\* res := enc.DecodeString(text)
DoDecodeString ==
    /\ pc \in {"encoded", "built"}
    /\ panicked = ""
    /\ \E r \in {DecodeString(encoding, text)} :
          /\ res' = r
          /\ panicked' = r.panic
    /\ pc' = IF pc = "encoded" THEN "roundtrip" ELSE "decoded"
    /\ UNCHANGED <<wr, conf, ebuf, once, re, loop, cfg, encoding, data, text, toks, steps, streamVars>>

Next ==
    \/ DoEncodeToString
    \/ InsertNewline
    \/ AppendToken
    \/ AppendQuantum
    \/ DoDecodeString

Spec == Init /\ [][Next]_vars

-----------------------------------------------------------------------------
(* SpecLoop: the program of Spec, with the call of Decode that             *)
(* DecodeString makes taken one pass of its main loop at a time.           *)

\* dbuf := make([]byte, enc.DecodedLen(len(text))); enc.Decode(dbuf, text)
\* up to the label LOOP
DoDecodeEnter ==
    /\ pc \in {"encoded", "built"}
    /\ panicked = ""
    /\ loop' = decodeStart(Zeros(DecodedLen(encoding, Len(text))))
    /\ pc' = "loop"
    /\ UNCHANGED <<wr, conf, ebuf, once, re, cfg, encoding, data, text, toks, steps, res, panicked, streamVars>>

\* one pass of the main loop of Decode, on text[i]
DoDecodeByte ==
    /\ pc = "loop"
    /\ loop.exit = ""
    /\ loop.i < Len(text)
    /\ loop' = decodeByte(encoding, encoding.root, text, loop)
    /\ UNCHANGED <<wr, conf, ebuf, once, re, cfg, encoding, pc, data, text, toks, steps, res, panicked, streamVars>>

\* the main loop is left: Decode returns n and err, DecodeString dbuf[:n]
DoDecodeReturn ==
    /\ pc = "loop"
    /\ loop.exit # "" \/ loop.i >= Len(text)
    /\ \E r \in {decodeReturn(encoding, encoding.root, text,
                              IF loop.exit = "" THEN [loop EXCEPT !.exit = "end"] ELSE loop)} :
          /\ res' = [out |-> SubSeq(r.dst, 1, r.n), err |-> r.err, panic |-> r.panic,
                     why |-> r.why, at |-> r.at]
          /\ panicked' = r.panic
    /\ pc' = "decoded"
    /\ UNCHANGED <<wr, conf, ebuf, once, re, loop, cfg, encoding, data, text, toks, steps, streamVars>>

NextLoop ==
    \/ DoEncodeToString
    \/ InsertNewline
    \/ AppendToken
    \/ AppendQuantum
    \/ DoDecodeEnter
    \/ DoDecodeByte
    \/ DoDecodeReturn

SpecLoop == Init /\ [][NextLoop]_vars

-----------------------------------------------------------------------------
(* SpecStream: a program that decodes a text in one shot and then reads it *)
(* through the streaming decoder until Read returns an error.              *)

\* the lengths of the buffers the caller reads with
BigRead == 16
ReadLens == {1, 2, 3, BigRead}

StreamAppendToken == steps < MaxStreamTok /\ AppendToken

StreamAppendQuantum == steps < MaxStreamTok /\ AppendQuantum

\* r := NewDecoder(enc, src), src a reader over text
DoNewDecoder ==
    /\ pc \in {"roundtrip", "decoded"}
    /\ panicked = ""
    /\ pc' = "stream"
    /\ encoding' = buildOnce(encoding)
    /\ dec' = NewDecoder
    /\ rest' = text
    /\ chunked' \in BOOLEAN
    /\ got' = <<>>
    /\ rerr' = NilErr
    /\ minp' = BigRead
    /\ UNCHANGED <<wr, conf, ebuf, once, re, loop, cfg, data, text, toks, steps, res, panicked>>

\* n, err := r.Read(p); got = append(got, p[:n]...)
DoRead ==
    /\ pc = "stream"
    /\ rerr = NilErr
    /\ panicked = ""
    /\ \E plen \in ReadLens :
          /\ \E r \in Read(encoding, dec, rest, plen, chunked) :
                /\ dec' = r.d
                /\ rest' = r.src
                /\ got' = got \o r.w
                /\ rerr' = r.err
                /\ panicked' = r.panic
          /\ minp' = Min(minp, plen)
    /\ UNCHANGED <<wr, conf, ebuf, once, re, loop, cfg, encoding, pc, data, text, toks, steps, res, chunked>>

NextStream ==
    \/ DoEncodeToString
    \/ StreamAppendToken
    \/ StreamAppendQuantum
    \/ DoDecodeString
    \/ DoNewDecoder
    \/ DoRead

SpecStream == Init /\ [][NextStream]_vars

-----------------------------------------------------------------------------
(* SpecReencode: the program of SpecStream, which also encodes the bytes   *)
(* that DecodeString or the streaming decoder gave and decodes the result. *)

\* encoded := enc.EncodeToString(decoded); decoded2, err := enc.DecodeString(encoded)
reencode(from, decoded) ==
    CHOOSE r \in
        {CHOOSE r2 \in
            {[from |-> from, d |-> decoded, encoded |-> e.s, out |-> d2.out,
              err |-> d2.err, panic |-> IF e.panic # "" THEN e.panic ELSE d2.panic] :
                d2 \in {DecodeString(encoding, e.s)}} : TRUE :
            e \in {EncodeToString(encoding, decoded)}} : TRUE

\* FuzzDecode: DecodeString returned no error
DoReencode ==
    /\ pc \in {"roundtrip", "decoded"}
    /\ panicked = ""
    /\ res.err = NilErr
    /\ pc' = "reencoded"
    /\ re' = reencode("DecodeString", res.out)
    /\ panicked' = re'.panic
    /\ UNCHANGED <<wr, conf, ebuf, once, loop, cfg, encoding, data, text, toks, steps, res, streamVars>>

\* FuzzDecoder: the decoder was read to the end
DoReencodeRead ==
    /\ pc = "stream"
    /\ panicked = ""
    /\ rerr = EOF
    /\ pc' = "reencoded"
    /\ re' = reencode("Read", got)
    /\ panicked' = re'.panic
    /\ UNCHANGED <<wr, conf, ebuf, once, loop, cfg, encoding, data, text, toks, steps, res, streamVars>>

NextReencode ==
    \/ DoEncodeToString
    \/ StreamAppendToken
    \/ StreamAppendQuantum
    \/ DoDecodeString
    \/ DoNewDecoder
    \/ DoRead
    \/ DoReencode
    \/ DoReencodeRead

SpecReencode == Init /\ [][NextReencode]_vars

-----------------------------------------------------------------------------
(* SpecTail: a program that encodes data which takes padding, inserts      *)
(* CR/LF bytes, appends further pieces to the encoded text, decodes the    *)
(* result in one shot and then reads it through the streaming decoder.     *)
MaxTail == 2        \* most edits (CR/LF inserted, pieces appended) to a text

\* text := enc.EncodeToString(b), b of 1 or 2 bytes
TailEncode == DoEncodeToString /\ Len(data') \in {1, 2}

TailInsertNewline == steps < MaxTail /\ InsertNewline

\* one more piece is appended to the encoded text
AppendTail ==
    /\ pc \in {"encoded", "built"}
    /\ data # <<>>
    /\ panicked = ""
    /\ steps < MaxTail
    /\ \E t \in Tokens(encoding) :
          /\ toks' = Append(toks, t)
          /\ text' = text \o t.b
    /\ steps' = steps + 1
    /\ pc' = "built"
    /\ UNCHANGED <<wr, conf, ebuf, once, re, loop, cfg, encoding, data, res, panicked, streamVars>>

NextTail ==
    \/ TailEncode
    \/ TailInsertNewline
    \/ AppendTail
    \/ DoDecodeString
    \/ DoNewDecoder
    \/ DoRead

SpecTail == Init /\ [][NextTail]_vars

-----------------------------------------------------------------------------
(* SpecSticky: the program of SpecStream, which also goes on reading after *)
(* Read has returned an error.                                             *)

\* n, err := r.Read(p) after a Read that returned an error
DoReadAgain ==
    /\ pc = "stream"
    /\ rerr # NilErr
    /\ panicked = ""
    /\ \E plen \in ReadLens :
          /\ \E r \in Read(encoding, dec, rest, plen, chunked) :
                /\ dec' = r.d
                /\ rest' = r.src
                /\ got' = got \o r.w
                /\ rerr' = r.err
                /\ panicked' = r.panic
          /\ minp' = Min(minp, plen)
    /\ UNCHANGED <<wr, conf, ebuf, once, re, loop, cfg, encoding, pc, data, text, toks, steps, res, chunked>>

NextSticky ==
    \/ DoEncodeToString
    \/ StreamAppendToken
    \/ StreamAppendQuantum
    \/ DoDecodeString
    \/ DoNewDecoder
    \/ DoRead
    \/ DoReadAgain

SpecSticky == Init /\ [][NextSticky]_vars

-----------------------------------------------------------------------------
(* SpecConfig: a program that builds a configuration with NewEncoding and  *)
(* derives others from it with WithPadding and Strict.                     *)
MaxConf == 3        \* most calls of WithPadding and Strict after NewEncoding

\* the alphabet texts handed to NewEncoding: two alphabets of 64 distinct
\* code points; texts of 65, 63, 2, 1 and 0 code points; a repeated code
\* point; a byte that is not UTF-8; an alphabet with LF, with the standard
\* padding symbol, with U+FFFD; a text cut inside its last code point
Alphabets ==
    {encodeStd, encodeAscii,
     encodeAscii \o <<33>>, SubSeq(encodeAscii, 1, 63), <<65, 66>>, <<65>>, <<>>,
     [encodeAscii EXCEPT ![2] = 65],
     [encodeAscii EXCEPT ![2] = 255],
     [encodeAscii EXCEPT ![64] = LF],
     SubSeq(encodeStd, 1, Len(encodeStd) - 3) \o RuneBytes(StdPadding),
     SubSeq(encodeStd, 1, Len(encodeStd) - 3) \o RuneBytes(RuneError),
     SubSeq(encodeStd, 1, Len(encodeStd) - 1)}

\* the code points handed to WithPadding
Paddings == {NoPadding, 61, StdPadding, LF, CR, 65, 12354, 33}

\* the program's record after a constructor returned e
\* (last: the call before this one and its argument)
built(op, arg, e, prev, n) ==
    [op |-> op, alphabet |-> IF op = "NewEncoding" THEN arg ELSE conf.alphabet,
     arg |-> arg, e |-> e, prev |-> prev, n |-> n,
     last |-> IF op = "NewEncoding" THEN <<>> ELSE <<conf.op, conf.arg>>]

\* enc := NewEncoding(alphabet)
DoNewEncoding ==
    /\ pc = "start"
    /\ pc' = "config"
    /\ \E a \in Alphabets :
          \E e \in {NewEncoding(a)} :
              /\ conf' = built("NewEncoding", a, e, e, 0)
              /\ panicked' = e.panic
    /\ UNCHANGED <<wr, ebuf, once, re, loop, cfg, encoding, data, text, toks, steps, res, streamVars>>

\* enc = enc.WithPadding(padding)
DoWithPadding ==
    /\ pc = "config"
    /\ panicked = ""
    /\ conf.n < MaxConf
    /\ \E padding \in Paddings :
          \E e \in {WithPadding(conf.e, padding)} :
              /\ conf' = built("WithPadding", padding, e, conf.e, conf.n + 1)
              /\ panicked' = e.panic
    /\ UNCHANGED <<wr, ebuf, once, re, loop, cfg, encoding, pc, data, text, toks, steps, res, streamVars>>

\* enc = enc.Strict()
DoStrict ==
    /\ pc = "config"
    /\ panicked = ""
    /\ conf.n < MaxConf
    /\ conf' = built("Strict", 0, Strict(conf.e), conf.e, conf.n + 1)
    /\ UNCHANGED <<wr, ebuf, once, re, loop, cfg, encoding, pc, data, text, toks, steps, res, panicked, streamVars>>

NextConfig ==
    \/ DoNewEncoding
    \/ DoWithPadding
    \/ DoStrict

SpecConfig == Init /\ [][NextConfig]_vars

-----------------------------------------------------------------------------
(* SpecDerive: a program that derives a configuration from enc before enc  *)
(* has decoded anything (d1), lets enc decode, derives the same            *)
(* configuration again (d2), and decodes one text with d1 and with d2.     *)
(* Encodings[cfg] is enc before its first decode, encoding is enc after.   *)

\* the paddings given to WithPadding: none, the default, '=', and U+3042,
\* which is a symbol of encodeStd
DerivePaddings == {NoPadding, StdPadding, 61, 12354}

\* the data the program encodes to get the texts it decodes
DeriveData == {<<0>>, <<102, 255>>, <<0, 102, 255>>, <<255, 255, 255, 0>>}

\* enc.Strict() or enc.WithPadding(arg)
derive(op, arg, enc) == IF op = "Strict" THEN Strict(enc) ELSE WithPadding(enc, arg)

\* d1 := enc.Strict() or d1 := enc.WithPadding(arg), before enc decoded
DoDeriveBefore ==
    /\ pc = "start"
    /\ \E op \in {"Strict", "WithPadding"} :
          \E arg \in IF op = "Strict" THEN {0} ELSE DerivePaddings :
              \E d \in {derive(op, arg, Encodings[cfg])} :
                  /\ conf' = [op |-> op, arg |-> arg, recv |-> Encodings[cfg], d1 |-> d]
                  /\ panicked' = IF op = "Strict" THEN "" ELSE d.panic
    /\ pc' = "derived"
    /\ UNCHANGED <<wr, ebuf, once, re, loop, cfg, encoding, data, text, toks, steps, res, streamVars>>

\* text := enc.EncodeToString(b); enc.DecodeString(text): enc builds its
\* recognizer
DoReceiverDecode ==
    /\ pc = "derived"
    /\ panicked = ""
    /\ \E b \in DeriveData :
          \E e \in {EncodeToString(encoding, b)} :
              /\ data' = b
              /\ text' = e.s
              /\ res' = DecodeString(encoding, e.s)
    /\ pc' = "used"
    /\ UNCHANGED <<wr, conf, ebuf, once, re, loop, cfg, encoding, toks, steps, panicked, streamVars>>

\* d2 := enc.Strict() or d2 := enc.WithPadding(arg), after enc decoded
DoDeriveAfter ==
    /\ pc = "used"
    /\ \E d \in {derive(conf.op, conf.arg, encoding)} :
          conf' = [op |-> conf.op, arg |-> conf.arg, recv |-> conf.recv, d1 |-> conf.d1,
                   used |-> encoding, d2 |-> d]
    /\ pc' = "derived again"
    /\ UNCHANGED <<wr, ebuf, once, re, loop, cfg, encoding, data, text, toks, steps, res, panicked, streamVars>>

\* t := d1.EncodeToString(b) or t := enc.EncodeToString(b);
\* r1 := d1.DecodeString(t); r2 := d2.DecodeString(t); r := enc.DecodeString(text)
DoDecodeDerived ==
    /\ pc = "derived again"
    /\ \E g1 \in {buildOnce(conf.d1)}, g2 \in {buildOnce(conf.d2)} :
          \E b \in DeriveData, own \in BOOLEAN :
              \E e \in {EncodeToString(IF own THEN g1 ELSE encoding, b)} :
                  conf' = [op |-> conf.op, arg |-> conf.arg, recv |-> conf.recv,
                           d1 |-> conf.d1, used |-> conf.used, d2 |-> conf.d2,
                           own |-> own, b |-> b, t |-> e.s,
                           r1 |-> DecodeString(g1, e.s),
                           r2 |-> DecodeString(g2, e.s),
                           r |-> DecodeString(encoding, text)]
    /\ pc' = "compared"
    /\ UNCHANGED <<wr, ebuf, once, re, loop, cfg, encoding, data, text, toks, steps, res, panicked, streamVars>>

NextDerive ==
    \/ DoDeriveBefore
    \/ DoReceiverDecode
    \/ DoDeriveAfter
    \/ DoDecodeDerived

SpecDerive == Init /\ [][NextDerive]_vars

-----------------------------------------------------------------------------
(* SpecEncode: a program that encodes data into a buffer of its own with   *)
(* Encode and decodes the text it finds there.                             *)
MaxSrc == 5         \* longest data handed to Encode
Spare == 4          \* bytes the caller's buffer may have beyond EncodedLen

\* dst := make([]byte, enc.EncodedLen(len(src)) + spare)
\* n := enc.Encode(dst, src); text := string(dst[:n])
DoEncode ==
    /\ pc = "start"
    /\ \E src \in SeqsUpTo(DataBytes, MaxSrc), spare \in {0, Spare} :
          \E r \in {Encode(encoding, Zeros(EncodedLen(encoding, Len(src)) + spare), src)} :
              /\ data' = src
              /\ ebuf' = [n |-> r.n, dst |-> r.dst, len |-> EncodedLen(encoding, Len(src))]
              /\ text' = SubSeq(r.dst, 1, r.n)
              /\ toks' = Tokenize(encoding, SubSeq(r.dst, 1, r.n))
              /\ panicked' = r.panic
    /\ pc' = "encoded"
    /\ UNCHANGED <<wr, conf, once, re, loop, cfg, encoding, steps, res, streamVars>>

NextEncode ==
    \/ DoEncode
    \/ DoDecodeString

SpecEncode == Init /\ [][NextEncode]_vars

-----------------------------------------------------------------------------
(* SpecOnce: goroutines that call Decode or NewDecoder on one Encoding that *)
(* nobody has decoded with yet.  once holds the Encoding's sync.Once (done, *)
(* and m, the goroutine holding its mutex or 0), its root, the number of   *)
(* times build has run, and per goroutine the call it makes, its position  *)
(* in it and the root it went on with (n).  Every action is one atomic     *)
(* step of a goroutine: a load or store of done, a Lock or Unlock of m, a  *)
(* write or read of enc.root.                                              *)
NProcs == 3         \* number of goroutines

\* m.Lock() that does not wait for the mutex
C27_locked(o) == FALSE

\* the mutex of the sync.Once is held
locked(o) == o.m # 0

At(p, where) == once.procs # <<>> /\ once.procs[p].pc = where

Goto(p, where) == [once EXCEPT !.procs[p].pc = where]

\* go enc.Decode(dst, src) or go NewDecoder(enc, r), NProcs times
GoCalls ==
    /\ pc = "start"
    /\ pc' = "calls"
    /\ \E calls \in [1..NProcs -> {"Decode", "NewDecoder"}] :
          once' = [done |-> FALSE, m |-> 0, root |-> NilRoot, builds |-> 0,
                   procs |-> [p \in 1..NProcs |->
                                 [call |-> calls[p], pc |-> "Do", n |-> NilRoot]]]
    /\ UNCHANGED <<wr, conf, ebuf, re, loop, cfg, encoding, data, text, toks, steps, res, panicked, streamVars>>

\* enc.once.Do(enc.build): if o.done.Load() == 0 { o.doSlow(f) }
OnceDo ==
    /\ \E p \in 1..NProcs :
          /\ At(p, "Do")
          /\ once' = Goto(p, IF once.done THEN "root" ELSE "Lock")
    /\ UNCHANGED <<wr, conf, ebuf, re, loop, cfg, encoding, pc, data, text, toks, steps, res, panicked, streamVars>>

\* doSlow: o.m.Lock()
OnceLock ==
    /\ \E p \in 1..NProcs :
          /\ At(p, "Lock")
          /\ ~locked(once)
          /\ once' = [Goto(p, "doSlow") EXCEPT !.m = p]
    /\ UNCHANGED <<wr, conf, ebuf, re, loop, cfg, encoding, pc, data, text, toks, steps, res, panicked, streamVars>>

\* doSlow: if o.done.Load() == 0 { defer o.done.Store(1); f() }
OnceSlow ==
    /\ \E p \in 1..NProcs :
          /\ At(p, "doSlow")
          /\ once' = Goto(p, IF once.done THEN "Unlock" ELSE "build")
    /\ UNCHANGED <<wr, conf, ebuf, re, loop, cfg, encoding, pc, data, text, toks, steps, res, panicked, streamVars>>

\* enc.build: enc.root = buildDFA(enc.encode, enc.padChar); the value is
\* build(Encodings[cfg]), which encoding.root holds
OnceBuild ==
    /\ \E p \in 1..NProcs :
          /\ At(p, "build")
          /\ once' = [Goto(p, "Store") EXCEPT !.root = encoding.root,
                                              !.builds = once.builds + 1]
    /\ UNCHANGED <<wr, conf, ebuf, re, loop, cfg, encoding, pc, data, text, toks, steps, res, panicked, streamVars>>

\* the deferred o.done.Store(1)
OnceStore ==
    /\ \E p \in 1..NProcs :
          /\ At(p, "Store")
          /\ once' = [Goto(p, "Unlock") EXCEPT !.done = TRUE]
    /\ UNCHANGED <<wr, conf, ebuf, re, loop, cfg, encoding, pc, data, text, toks, steps, res, panicked, streamVars>>

\* the deferred o.m.Unlock()
OnceUnlock ==
    /\ \E p \in 1..NProcs :
          /\ At(p, "Unlock")
          /\ once' = [Goto(p, "root") EXCEPT !.m = 0]
    /\ UNCHANGED <<wr, conf, ebuf, re, loop, cfg, encoding, pc, data, text, toks, steps, res, panicked, streamVars>>

\* n := enc.root (Decode), state: enc.root (NewDecoder)
ReadRoot ==
    /\ \E p \in 1..NProcs :
          /\ At(p, "root")
          /\ once' = [Goto(p, "done") EXCEPT !.procs[p].n = once.root]
    /\ UNCHANGED <<wr, conf, ebuf, re, loop, cfg, encoding, pc, data, text, toks, steps, res, panicked, streamVars>>

NextOnce ==
    \/ GoCalls
    \/ OnceDo
    \/ OnceLock
    \/ OnceSlow
    \/ OnceBuild
    \/ OnceStore
    \/ OnceUnlock
    \/ ReadRoot

SpecOnce == Init /\ [][NextOnce]_vars

-----------------------------------------------------------------------------
(* SpecWriter: a program that writes chunks to a streaming encoder and     *)
(* closes it, in any order, over a sink that never fails or one that may.  *)
MaxOps == 4         \* most calls of Write and Close on one encoder

\* the chunks handed to Write
WriteChunks ==
    {<<>>, <<0>>, <<255>>, <<102, 111>>, <<102, 111, 111>>, <<0, 16, 131, 255>>,
     <<102, 111, 111, 98, 97, 114, 255>>}

\* w := NewEncoder(enc, sink)
DoNewEncoder ==
    /\ pc = "start"
    /\ pc' = "writer"
    /\ \E fails \in BOOLEAN :
          wr' = [op |-> "NewEncoder", e |-> NewEncoder, sink |-> <<>>, calls |-> 0,
                 input |-> <<>>, ops |-> 0, closed |-> FALSE, fails |-> fails,
                 failed |-> NilErr, since |-> 0, sinceCalls |-> 0, plen |-> 0,
                 ret |-> [n |-> 0, err |-> NilErr], late |-> 0, lateSink |-> <<>>]
    /\ UNCHANGED <<conf, ebuf, once, re, loop, cfg, encoding, data, text, toks, steps, res, panicked, streamVars>>

\* the program's record after a call that returned r; plen is len(p), or -1
\* for Close, and failAt the call of the sink that was to fail
afterCall(r, op, p, failAt) ==
    [op |-> op, e |-> r.e, sink |-> wr.sink \o r.sink, calls |-> wr.calls + r.calls,
     input |-> wr.input \o p, ops |-> wr.ops + 1,
     closed |-> wr.closed \/ op = "Close", fails |-> wr.fails,
     failed |-> IF wr.failed = NilErr /\ failAt >= 1 /\ failAt <= r.calls
                THEN ErrSink ELSE wr.failed,
     since |-> IF wr.failed # NilErr THEN wr.since + 1 ELSE 0,
     sinceCalls |-> IF wr.failed # NilErr THEN wr.sinceCalls + r.calls ELSE 0,
     plen |-> Len(p),
     ret |-> [n |-> r.n, err |-> r.err],
     late |-> IF wr.closed /\ op = "Write" THEN wr.late + 1 ELSE wr.late,
     lateSink |-> IF wr.closed /\ op = "Write" THEN wr.lateSink \o r.sink
                  ELSE wr.lateSink]

\* n, err := w.Write(p)
DoWrite ==
    /\ pc = "writer"
    /\ panicked = ""
    /\ wr.ops < MaxOps
    /\ \E p \in WriteChunks, failAt \in (IF wr.fails THEN 0..2 ELSE {0}) :
          \E r \in {Write(encoding, wr.e, p, failAt)} :
              /\ wr' = afterCall(r, "Write", p, failAt)
              /\ panicked' = r.panic
    /\ UNCHANGED <<conf, ebuf, once, re, loop, cfg, encoding, pc, data, text, toks, steps, res, streamVars>>

\* err := w.Close()
DoClose ==
    /\ pc = "writer"
    /\ panicked = ""
    /\ wr.ops < MaxOps
    /\ \E failAt \in (IF wr.fails THEN 0..1 ELSE {0}) :
          \E r \in {Close(encoding, wr.e, failAt)} :
              /\ wr' = afterCall(r, "Close", <<>>, failAt)
              /\ panicked' = r.panic
    /\ UNCHANGED <<conf, ebuf, once, re, loop, cfg, encoding, pc, data, text, toks, steps, res, streamVars>>

NextWriter ==
    \/ DoNewEncoder
    \/ DoWrite
    \/ DoClose

SpecWriter == Init /\ [][NextWriter]_vars

-----------------------------------------------------------------------------
(* What the properties below say about a text, by its tokens.              *)

IsPadded == encoding.padChar # NoPadding

\* the indexes of the tokens of kind k
Of(ts, k) == {x \in 1..Len(ts) : ts[x].k = k}

\* the text is made of whole alphabet symbols, whole padding symbols, CR, LF
WholeSymbols(ts) == \A x \in 1..Len(ts) : ts[x].k \in {"sym", "pad", "nl"}

\* no alphabet symbol follows a padding symbol
PaddingLast(ts) == \A x \in Of(ts, "pad"), y \in Of(ts, "sym") : y < x

\* byte offset just after the last of the first n alphabet symbols
AfterSyms(ts, n) ==
    IF n = 0 THEN 0
    ELSE EndPos(ts, CHOOSE x \in Of(ts, "sym") :
                        Cardinality({y \in Of(ts, "sym") : y <= x}) = n)

\* byte offset just after the last token of a kind in kinds that ends at or
\* before byte offset at (0 if there is none)
LastEnd(ts, kinds, at) ==
    LET ends == {EndPos(ts, x) : x \in {y \in 1..Len(ts) : ts[y].k \in kinds}}
        before == {e \in ends : e <= at}
    IN  IF before = {} THEN 0 ELSE CHOOSE e \in before : \A f \in before : f <= e

\* the kind of the token that holds the byte at offset at
KindAt(ts, at) ==
    ts[CHOOSE x \in 1..Len(ts) : EndPos(ts, x - 1) <= at /\ at < EndPos(ts, x)].k

\* a legal encoded text: whole symbols in quanta of four, at most two
\* padding symbols that end the last quantum, or none and no quantum of one
\* symbol when padding is disabled
Legal(ts) ==
    /\ WholeSymbols(ts)
    /\ PaddingLast(ts)
    /\ IF IsPadded
       THEN /\ (Cardinality(Of(ts, "sym")) + Cardinality(Of(ts, "pad"))) % 4 = 0
            /\ Cardinality(Of(ts, "pad")) <= 2
       ELSE /\ Of(ts, "pad") = {}
            /\ Cardinality(Of(ts, "sym")) % 4 # 1

\* the text ends in a quantum that is not full, and nothing before its end
\* is an error
Dangling(ts) ==
    /\ WholeSymbols(ts)
    /\ PaddingLast(ts)
    /\ (Cardinality(Of(ts, "sym")) % 4) + Cardinality(Of(ts, "pad")) < 4
    /\ IF Of(ts, "pad") = {} THEN Cardinality(Of(ts, "sym")) % 4 # 0
       ELSE Cardinality(Of(ts, "sym")) % 4 \in {2, 3}

\* the stream has come to its end: Read returned an error
StreamEnded == pc = "stream" /\ rerr # NilErr

\* the stream ended as the one-shot Decode of the same text did
SameOutcome == IF res.err = NilErr THEN rerr = EOF ELSE rerr = res.err

-----------------------------------------------------------------------------
(* The properties.                                                         *)

\* C1: decoding what EncodeToString produced returns the data that was
\* encoded, with no error, and neither call panics.
C1_RoundTrip ==
    /\ pc \in {"encoded", "roundtrip"} => panicked = ""
    /\ (pc = "roundtrip" /\ steps = 0) => (res.err = NilErr /\ res.out = data)

C1_Witness ==
    /\ pc = "roundtrip" /\ steps = 0
    /\ Len(data) = 2 /\ data[2] = 255
    /\ encoding.strict /\ IsPadded
    /\ res.out = data

\* C2 (as stated): however the wrapped reader splits the text into chunks,
\* reading the decoder with large buffers never panics and ends as the
\* one-shot Decode does, with the same bytes when the text decodes.
C2_ChunkInsensitive ==
    (pc = "stream" /\ chunked /\ minp = BigRead) =>
        /\ panicked = ""
        /\ rerr # NilErr => (SameOutcome /\ (res.err = NilErr => got = res.out))

\* C3 (as stated): whatever buffer lengths the caller reads with, reading a
\* validly encoded text to the end never panics and returns exactly the bytes
\* of the one-shot decode.
C3_NoOutputLost ==
    (/\ pc = "stream" /\ ~chunked
     /\ res.err = NilErr /\ text = EncodeToString(encoding, res.out).s) =>
        /\ panicked = ""
        /\ rerr # NilErr => (rerr = EOF /\ got = res.out)

\* C4 (as stated): an encoded text with CR or LF bytes inserted at symbol
\* boundaries decodes to the data that was encoded.
C4_NewlineTransparent ==
    pc = "roundtrip" => (res.err = NilErr /\ res.out = data)

\* C5 (as stated): a text that is not a legal encoded text makes Decode
\* return CorruptInputError.
C5_MalformedRejected ==
    (pc = "decoded" /\ ~Legal(toks)) => res.err >= 0

\* C6 (as stated): with padding enabled, a text that ends in a quantum that
\* is not full makes Decode return CorruptInputError, at the end of the last
\* full quantum if the dangling quantum holds no padding symbol and at the
\* length of the input if it holds one.
C6_DanglingQuantum ==
    (pc = "decoded" /\ IsPadded /\ Dangling(toks)) =>
        res.err = IF Of(toks, "pad") = {}
                  THEN AfterSyms(toks, Cardinality(Of(toks, "sym"))
                                          - (Cardinality(Of(toks, "sym")) % 4))
                  ELSE Len(text)

\* C7 (as stated): with padding enabled, a text of exactly one alphabet
\* symbol makes Decode return CorruptInputError at the length of the input.
C7_OneSymbolAtEnd ==
    (pc = "decoded" /\ IsPadded /\ Len(toks) = 1 /\ toks[1].k = "sym") =>
        res.err = Len(text)

\* C7 (amended): with padding enabled, a text of exactly one alphabet symbol
\* makes Decode return CorruptInputError at offset 0, the end of the last
\* full quantum.
C7_OneSymbolAtZero ==
    (pc = "decoded" /\ IsPadded /\ Len(toks) = 1 /\ toks[1].k = "sym") =>
        res.err = CorruptInputError(0)

C7_Witness ==
    /\ pc = "decoded" /\ IsPadded /\ Len(toks) = 1 /\ toks[1].k = "sym"
    /\ Len(text) = 3 /\ res.why = "dangling quantum"

\* C8 (as stated): read with large buffers from a reader that delivers all
\* it has, the stream ends as the one-shot Decode of the same text does.
C8_StreamEndsAsDecode ==
    (StreamEnded /\ ~chunked /\ minp = BigRead) => SameOutcome

\* C9 (as stated): when Decode meets a byte with no transition, the offset is
\* the position just after the last whole symbol, alphabet or padding, before
\* that byte.
C9_AfterLastSymbol ==
    (pc = "decoded" /\ res.why = "invalid symbol") =>
        res.err = LastEnd(toks, {"sym", "pad"}, res.at)

\* C9 (amended): when Decode meets a byte with no transition, the offset is
\* the position just after the last whole alphabet symbol before that byte,
\* 0 if there is none; padding symbols, CR and LF do not move it.
C9_AfterLastAlphabetSymbol ==
    (pc = "decoded" /\ res.why = "invalid symbol") =>
        res.err = LastEnd(toks, {"sym"}, res.at)

C9_Witness ==
    /\ pc = "decoded" /\ res.why = "invalid symbol"
    /\ KindAt(toks, res.at) = "bad"
    /\ Of(toks, "pad") # {}
    /\ res.err > 0 /\ res.err < res.at - 1

\* C10: with padding enabled, a padding symbol that comes when the quantum
\* holds 0 or 1 symbols makes Decode return CorruptInputError at the position
\* just after the last alphabet symbol before it.
C10_PaddingInSlot01 ==
    (/\ pc = "decoded" /\ IsPadded /\ Of(toks, "pad") # {}
     /\ \A x \in 1..Len(toks) :
           (\A y \in Of(toks, "pad") : x < y) => toks[x].k \in {"sym", "nl"}
     /\ Cardinality({x \in Of(toks, "sym") : \A y \in Of(toks, "pad") : x < y}) % 4
           \in {0, 1}) =>
        res.err = LastEnd(toks, {"sym"},
                          EndPos(toks, (CHOOSE y \in Of(toks, "pad") :
                                           \A z \in Of(toks, "pad") : y <= z) - 1))

C10_Witness ==
    /\ pc = "decoded" /\ IsPadded /\ res.why = "incorrect padding"
    /\ Len(toks) = 4 /\ toks[1].k = "sym" /\ toks[2].k = "nl" /\ toks[3].k = "pad"
    /\ res.err = Len(toks[1].b)

-----------------------------------------------------------------------------
(* Texts with a terminal quantum.                                          *)

\* the number of alphabet and padding symbols among the first x tokens
SymbolsUpTo(ts, x) == Cardinality({y \in 1..x : ts[y].k \in {"sym", "pad"}})

\* token x is the padding symbol that completes a quantum of the text, and
\* the text up to it is a legal padded text
EndsTerminal(ts, x) ==
    /\ ts[x].k = "pad"
    /\ SymbolsUpTo(ts, x) % 4 = 0
    /\ WholeSymbols(SubSeq(ts, 1, x))
    /\ PaddingLast(SubSeq(ts, 1, x))
    /\ Cardinality(Of(SubSeq(ts, 1, x), "pad")) <= 2

HasTerminal(ts) == \E x \in 1..Len(ts) : EndsTerminal(ts, x)

\* the index of the token that completes the terminal quantum
TerminalAt(ts) == CHOOSE x \in 1..Len(ts) : EndsTerminal(ts, x)

\* the tokens after the terminal quantum that are neither CR nor LF
AfterTerminal(ts) == {y \in (TerminalAt(ts) + 1)..Len(ts) : ts[y].k # "nl"}

\* the byte offset of the first byte after the terminal quantum that is
\* neither CR nor LF
FirstAfterTerminal(ts) ==
    EndPos(ts, (CHOOSE y \in AfterTerminal(ts) : \A z \in AfterTerminal(ts) : y <= z) - 1)

\* C11 (as stated): after the padding symbol that completes a quantum of an
\* encoded text, the first byte that is neither CR nor LF makes Decode return
\* CorruptInputError at the offset of that byte, and makes the stream, read
\* with large buffers from a reader that delivers all it has, end with the
\* same error after it returned the data that was encoded; with only CR and
\* LF after the quantum, both return the data that was encoded.
C11_OnlyNewlinesAfterPadding ==
    (data # <<>> /\ IsPadded /\ HasTerminal(toks)) =>
        /\ pc = "decoded" =>
              IF AfterTerminal(toks) = {}
              THEN res.err = NilErr /\ res.out = data
              ELSE res.err = CorruptInputError(FirstAfterTerminal(toks))
        /\ (StreamEnded /\ ~chunked /\ minp = BigRead) =>
              /\ got = data
              /\ rerr = IF AfterTerminal(toks) = {} THEN EOF
                        ELSE CorruptInputError(FirstAfterTerminal(toks))

-----------------------------------------------------------------------------
(* The final partial quantum of a text.                                    *)

\* the index of the m-th alphabet symbol of the text
SymAt(ts, m) ==
    CHOOSE x \in Of(ts, "sym") : Cardinality({y \in Of(ts, "sym") : y <= x}) = m

\* the 6-bit value of the m-th alphabet symbol of the text
ValueAt(ts, m) == CHOOSE v \in 0..63 : encoding.encode[v + 1] = ts[SymAt(ts, m)].b

NumSyms(ts) == Cardinality(Of(ts, "sym"))

\* the bits of the last alphabet symbol that a final quantum of 2 or 3
\* symbols discards: its low 4 bits, or its low 2 bits
SlackBits(ts) ==
    IF NumSyms(ts) % 4 = 2 THEN ValueAt(ts, NumSyms(ts)) % 16
    ELSE ValueAt(ts, NumSyms(ts)) % 4

\* the bytes a final quantum of 2 or 3 symbols stands for
TailBytes(ts) ==
    LET n == NumSyms(ts)
        first == n - (n % 4) + 1
        b1 == ValueAt(ts, first) * 4 + (ValueAt(ts, first + 1) \div 16)
    IN  IF n % 4 = 2 THEN <<b1>>
        ELSE <<b1, (ValueAt(ts, first + 1) % 16) * 16 + (ValueAt(ts, first + 2) \div 4)>>

\* an unpadded text of whole alphabet symbols, CR and LF that was decoded
\* and does not end on a quantum boundary
UnpaddedTail ==
    /\ pc = "decoded" /\ ~IsPadded
    /\ WholeSymbols(toks)
    /\ NumSyms(toks) % 4 # 0

\* C12 (as stated): with padding disabled, a text whose symbol count is 1
\* modulo 4 makes Decode return CorruptInputError, and a final quantum of 2 or
\* 3 symbols decodes to 1 or 2 bytes.
C12_UnpaddedTail ==
    UnpaddedTail =>
        IF NumSyms(toks) % 4 = 1 THEN res.err >= 0
        ELSE /\ res.err = NilErr
             /\ Len(res.out) = 3 * (NumSyms(toks) \div 4) + Len(TailBytes(toks))

\* C12 (amended): with padding disabled, a text whose symbol count is 1 modulo
\* 4 makes Decode return CorruptInputError; a final quantum of 2 or 3 symbols
\* decodes to the 1 or 2 bytes it stands for, unless the configuration is
\* strict and the bits it discards are not zero, when Decode returns
\* CorruptInputError.
C12_UnpaddedTailUnlessStrict ==
    UnpaddedTail =>
        IF NumSyms(toks) % 4 = 1 THEN res.err >= 0
        ELSE IF encoding.strict /\ SlackBits(toks) # 0 THEN res.err >= 0
        ELSE /\ res.err = NilErr
             /\ Len(res.out) = 3 * (NumSyms(toks) \div 4) + Len(TailBytes(toks))
             /\ SubSeqFrom(res.out, 3 * (NumSyms(toks) \div 4) + 1) = TailBytes(toks)

C12_Witness ==
    /\ UnpaddedTail /\ encoding.strict
    /\ NumSyms(toks) = 6 /\ Of(toks, "nl") # {}
    /\ res.err = NilErr /\ Len(res.out) = 4

\* a decoded text without CR or LF that is a legal encoded text and ends in
\* a short quantum: 2 or 3 alphabet symbols, then the padding if enabled
ShortFinalQuantum ==
    /\ pc = "decoded"
    /\ Of(toks, "nl") = {}
    /\ Legal(toks)
    /\ NumSyms(toks) % 4 \in {2, 3}

\* C13: a legal text that ends in a short quantum (2 or 3 alphabet symbols,
\* padded or unpadded) is decoded without error by every configuration when
\* the bits the quantum discards are zero; when they are not zero, the
\* non-strict configurations decode it to the bytes it stands for and the
\* Strict configurations of the same alphabet and padding return
\* CorruptInputError.
C13_StrictRejectsSlack ==
    ShortFinalQuantum =>
        IF encoding.strict /\ SlackBits(toks) # 0 THEN res.err >= 0
        ELSE /\ res.err = NilErr
             /\ SubSeqFrom(res.out, 3 * (NumSyms(toks) \div 4) + 1) = TailBytes(toks)

C13_Witness ==
    /\ ShortFinalQuantum /\ IsPadded /\ encoding.strict
    /\ NumSyms(toks) = 3 /\ SlackBits(toks) # 0
    /\ res.why = "strict" /\ res.err >= 0

-----------------------------------------------------------------------------
(* The streaming encoder.                                                  *)

\* C14: over a sink that never fails, every Write returns the length it was
\* given and no error; what the sink has received is the encoding of the
\* whole 3-byte blocks written so far and, once Close was called, the
\* encoding of everything written.
C14_StreamEncodeIsEncode ==
    (pc = "writer" /\ ~wr.fails /\ wr.late = 0) =>
        /\ panicked = ""
        /\ wr.op = "Write" => wr.ret = [n |-> wr.plen, err |-> NilErr]
        /\ wr.op = "Close" => wr.ret.err = NilErr
        /\ wr.sink = IF wr.closed THEN EncodeToString(encoding, wr.input).s
                     ELSE EncodeToString(encoding,
                              SubSeq(wr.input, 1,
                                     Len(wr.input) - (Len(wr.input) % 3))).s

C14_Witness ==
    /\ pc = "writer" /\ ~wr.fails /\ wr.late = 0 /\ wr.closed
    /\ wr.ops = 4 /\ Len(wr.input) = 8 /\ wr.calls = 3
    /\ wr.sink = EncodeToString(encoding, wr.input).s

\* C15 (as stated): a Write made after Close returns an error and sends
\* nothing to the sink.
C15_WriteAfterClose ==
    (pc = "writer" /\ wr.late > 0 /\ wr.op = "Write") =>
        (wr.ret.err # NilErr /\ wr.lateSink = <<>>)

\* C16: once a call of the sink has failed, every later Write returns 0 and
\* that error, every later Close returns that error, and the sink is not
\* called again.
C16_SinkFailureSticky ==
    (pc = "writer" /\ wr.since > 0) =>
        /\ wr.ret.err = wr.failed
        /\ wr.ret.n = 0
        /\ wr.sinceCalls = 0

C16_Witness ==
    /\ pc = "writer" /\ wr.failed = ErrSink /\ wr.since = 2
    /\ wr.op = "Write" /\ wr.plen = 7 /\ wr.closed
    /\ wr.ret = [n |-> 0, err |-> ErrSink]

-----------------------------------------------------------------------------
(* The streaming decoder after an error.                                   *)

\* C17 (as stated): once a Read has returned an error, every later Read
\* returns no bytes and the same error, and takes nothing from the wrapped
\* reader.
C17_TerminalSticky ==
    [][(pc = "stream" /\ rerr # NilErr /\ pc' = "stream" /\ panicked' = "") =>
          (rerr' = rerr /\ got' = got /\ rest' = rest)]_vars

-----------------------------------------------------------------------------
(* Configurations.                                                         *)

\* the code points of an alphabet text, in order (U+FFFD for each byte that
\* is not part of a UTF-8 sequence)
CodePoints(a) ==
    LET rs == CHOOSE r \in {RangeString(a, 1)} : TRUE
    IN  [x \in 1..Len(rs) |-> rs[x].ch]

\* the text is UTF-8 without U+FFFD and holds 64 pairwise distinct code points
ValidAlphabet(a) ==
    LET cps == CHOOSE r \in {CodePoints(a)} : TRUE
    IN  /\ \A x \in 1..Len(cps) : cps[x] # RuneError
        /\ Len(cps) = 64
        /\ \A x, y \in 1..Len(cps) : x # y => cps[x] # cps[y]

\* C18 (as stated): NewEncoding fails for every alphabet text that does not
\* hold exactly 64 code points, is not valid UTF-8 or repeats a code point,
\* and returns a configuration for every text of 64 pairwise distinct valid
\* code points.
C18_NewEncodingValidates ==
    (pc = "config" /\ conf.op = "NewEncoding") =>
        (panicked = "" <=> ValidAlphabet(conf.alphabet))

\* C19: WithPadding fails when the code point is CR, LF or a code point of
\* the alphabet; for every other code point, NoPadding included, it returns
\* the same configuration with that code point as its padding symbol.
C19_WithPaddingValidates ==
    (pc = "config" /\ conf.op = "WithPadding") =>
        IF \/ conf.arg \in {CR, LF}
           \/ \E cps \in {CodePoints(conf.alphabet)} :
                 \E x \in 1..Len(cps) : cps[x] = conf.arg
        THEN panicked # ""
        ELSE /\ panicked = ""
             /\ conf.e.padChar = conf.arg
             /\ conf.e.encode = conf.prev.encode
             /\ conf.e.decode = conf.prev.decode
             /\ conf.e.strict = conf.prev.strict

C19_Witness ==
    /\ pc = "config" /\ conf.op = "WithPadding" /\ conf.n = 3
    /\ conf.alphabet = encodeStd /\ conf.arg = 12354
    /\ conf.prev.padChar = NoPadding /\ conf.prev.strict
    /\ panicked = "padding contained in alphabet"

\* C20 (as stated): in every configuration that NewEncoding, WithPadding and
\* Strict returned, the padding symbol, when enabled, is none of the 64
\* alphabet code points and neither CR nor LF, and the alphabet code points
\* are pairwise distinct and none is CR or LF.
C20_ConfigurationInvariant ==
    (pc = "config" /\ panicked = "") =>
        /\ \A x \in 1..64 : conf.e.decode[x].r \notin {CR, LF}
        /\ \A x, y \in 1..64 : x # y => conf.e.decode[x].r # conf.e.decode[y].r
        /\ conf.e.padChar # NoPadding =>
              /\ conf.e.padChar \notin {CR, LF}
              /\ \A x \in 1..64 : conf.e.decode[x].r # conf.e.padChar

\* the data and the texts on which two configurations are compared: the
\* encodings of the data under the first, each also followed by '!'
SampleData == {<<>>, <<102>>, <<102, 255>>, <<0, 16, 131>>, <<102, 111, 111, 255>>}

SampleTexts(e) ==
    UNION {{t, t \o <<33>>} : t \in {EncodeToString(e, b).s : b \in SampleData}}

\* Encode, EncodedLen and DecodedLen give the same on the samples
SameEncode(e1, e2) ==
    /\ \A b \in SampleData : EncodeToString(e1, b) = EncodeToString(e2, b)
    /\ \A n \in 0..8 : /\ EncodedLen(e1, n) = EncodedLen(e2, n)
                       /\ DecodedLen(e1, n) = DecodedLen(e2, n)

\* Decode gives the same result, error and offset on the samples
SameDecode(e1, e2) ==
    \E g1 \in {buildOnce(e1)}, g2 \in {buildOnce(e2)} :
        \A t \in SampleTexts(e1) : DecodeString(g1, t) = DecodeString(g2, t)

\* a constructor was called a second time with the same argument
CalledTwice ==
    /\ pc = "config" /\ panicked = ""
    /\ conf.op \in {"WithPadding", "Strict"}
    /\ conf.last = <<conf.op, conf.arg>>

\* build does not panic: no symbol of the alphabet is empty
Buildable(e) == \A v \in 1..64 : e.encode[v] # <<>>

\* C21: a configuration made by a second WithPadding(p) after WithPadding(p),
\* or a second Strict() after Strict(), encodes and decodes as the one the
\* first call made: same Encode output, EncodedLen and DecodedLen, and same
\* Decode result, error and offset.
C21_IdempotentConfiguration ==
    CalledTwice =>
        /\ SameEncode(conf.e, conf.prev)
        /\ Buildable(conf.e) => SameDecode(conf.e, conf.prev)

C21_Witness ==
    /\ CalledTwice /\ conf.op = "WithPadding" /\ conf.arg = 61
    /\ conf.alphabet = encodeStd /\ conf.e.strict
    /\ conf.e.maxSize = 3

-----------------------------------------------------------------------------
(* What Encode writes.                                                     *)

\* Encode has returned
Encoded == pc = "encoded" /\ steps = 0 /\ panicked = ""

\* the number of alphabet symbols for n bytes of data
ValueSymbols(n) == 4 * (n \div 3) + (IF n % 3 = 1 THEN 2 ELSE IF n % 3 = 2 THEN 3 ELSE 0)

\* the number of padding symbols for n bytes of data
PaddingSymbols(n) == IF n % 3 = 1 THEN 2 ELSE IF n % 3 = 2 THEN 1 ELSE 0

\* C22: the text Encode writes for n bytes is 4 alphabet symbols for every
\* 3 bytes, then 2 alphabet symbols for 1 byte left or 3 for 2 bytes left,
\* then, with padding, 2 padding symbols (1 byte left) or 1 (2 bytes left);
\* there is no padding symbol for a multiple of 3 bytes or without padding.
C22_PaddingDeterminism ==
    Encoded =>
        /\ \A x \in 1..Len(toks) :
              toks[x].k = (IF x <= ValueSymbols(Len(data)) THEN "sym" ELSE "pad")
        /\ Len(toks) = ValueSymbols(Len(data))
                          + (IF IsPadded THEN PaddingSymbols(Len(data)) ELSE 0)

C22_Witness ==
    /\ Encoded /\ Len(data) = 5 /\ IsPadded
    /\ Len(toks) = 8 /\ toks[8].k = "pad" /\ toks[7].k = "sym"

-----------------------------------------------------------------------------
(* Textbook base64.                                                        *)

\* the replacer of the tests: the code point that stands for the x-th symbol
\* of "ABC...XYZabc...xyz0123456789+/" and, last, for '='
std2dq == <<
    12354, 12356, 12358, 12360, 12362, 12363, 12365, 12367, 12369, 12371,
    12373, 12375, 12377, 12379, 12381, 12383, 12385, 12388, 12390, 12392,
    12394, 12395, 12396, 12397, 12398, 12399, 12402, 12405, 12408, 12411,
    12414, 12415, 12416, 12417, 12418, 12420, 12422, 12424, 12425, 12426,
    12427, 12428, 12429, 12431, 12364, 12366, 12368, 12370, 12372, 12374,
    12376, 12378, 12380, 12382, 12384, 12386, 12389, 12391, 12393, 12400,
    12403, 12406, 12409, 12412, 12539 >>

\* bit x (0 the first) of the bytes b, 0 beyond their end
BitOf(b, x) == IF x \div 8 >= Len(b) THEN 0 ELSE (b[(x \div 8) + 1] \div (2 ^ (7 - (x % 8)))) % 2

\* the 6-bit value number k (0 the first) of the bytes b
SextetOf(b, k) ==
    32 * BitOf(b, 6 * k) + 16 * BitOf(b, 6 * k + 1) + 8 * BitOf(b, 6 * k + 2)
        + 4 * BitOf(b, 6 * k + 3) + 2 * BitOf(b, 6 * k + 4) + BitOf(b, 6 * k + 5)

\* textbook base64 of b with its symbols replaced by std2dq, as code points:
\* one symbol for every 6 bits begun, then '=' up to a multiple of 4
TextbookCodePoints(b) ==
    [x \in 1..(4 * ((Len(b) + 2) \div 3)) |->
        IF x <= (8 * Len(b) + 5) \div 6 THEN std2dq[SextetOf(b, x - 1) + 1] ELSE std2dq[65]]

\* the code points of the tokens that are not CR or LF
TextCodePoints(ts) ==
    LET keep == SelectSeq(ts, LAMBDA t : t.k # "nl")
    IN  [x \in 1..Len(keep) |-> DecodeRune(keep[x].b, 1).r]

\* C23 (as stated): with StdEncoding, the encoded text is textbook base64
\* with each symbol replaced by its hiragana and '=' by the padding symbol,
\* and a valid text (such a text, CR or LF inserted or not) decodes to what
\* standard base64 decoding gives for it: the data.
C23_StdIsBase64 ==
    (cfg = 1 /\ pc \in {"encoded", "roundtrip"} /\ panicked = "") =>
        /\ TextCodePoints(toks) = TextbookCodePoints(data)
        /\ pc = "roundtrip" => (res.err = NilErr /\ res.out = data)

-----------------------------------------------------------------------------
(* The size of the encoded text.                                           *)

\* a / b rounded up
Ceil(a, b) == CHOOSE q \in 0..a : q * b >= a /\ (q = 0 \/ (q - 1) * b < a)

\* C24: EncodedLen(n) is ceil(n/3)*4*maxSize with padding and
\* ceil(8n/6)*maxSize without, Encode returns at most EncodedLen(len(src)),
\* and it leaves every byte of dst from that index on as it was.
C24_EncodedLenBounds ==
    Encoded =>
        /\ ebuf.len = (IF IsPadded THEN Ceil(Len(data), 3) * 4 ELSE Ceil(8 * Len(data), 6))
                         * encoding.maxSize
        /\ ebuf.n <= ebuf.len
        /\ \A x \in (ebuf.len + 1)..Len(ebuf.dst) : ebuf.dst[x] = 0
        /\ \A x \in 1..ebuf.n : ebuf.dst[x] # 0

C24_Witness ==
    /\ Encoded /\ Len(data) = 5 /\ ~IsPadded
    /\ ebuf.n = 7 /\ ebuf.len = 21 /\ Len(ebuf.dst) = 21 + Spare

-----------------------------------------------------------------------------
(* The cached symbol width.                                                *)

\* the UTF-8 byte lengths of the 64 symbols and of the padding symbol in use
Widths(e) ==
    {Len(e.encode[v]) : v \in 1..64}
        \cup (IF e.padChar # NoPadding THEN {RuneLen(e.padChar)} ELSE {})

\* C25 (as stated): in every configuration NewEncoding, WithPadding and
\* Strict return, maxSize is the largest UTF-8 byte length among the 64
\* symbols and the padding symbol in use.
C25_MaxSizeIsWidest ==
    (pc = "config" /\ panicked = "") =>
        /\ conf.e.maxSize \in Widths(conf.e)
        /\ \A w \in Widths(conf.e) : w <= conf.e.maxSize

-----------------------------------------------------------------------------
(* The size of the decoded data.                                           *)

\* C26: Decode, given a destination of DecodedLen(len(src)) bytes (n*6/8
\* without padding, n/4*3 with padding), writes no index outside it, for
\* valid and for corrupt input, and returns at most DecodedLen(len(src)).
C26_DecodeWithinDecodedLen ==
    pc \in {"roundtrip", "decoded"} =>
        /\ panicked = ""
        /\ Len(res.out) <= (IF IsPadded THEN (Len(text) \div 4) * 3
                            ELSE (Len(text) * 6) \div 8)

C26_Witness ==
    /\ pc = "decoded" /\ panicked = ""
    /\ ~IsPadded /\ Len(text) = 3 /\ Len(toks) = 3
    /\ res.err = NilErr /\ Len(res.out) = 2

-----------------------------------------------------------------------------
(* The lazy build of the recognizer.                                       *)

\* C27: with any of the goroutines calling Decode or NewDecoder on the same
\* Encoding at once, build runs at most once, a goroutine that has read
\* enc.root has read the built recognizer, and enc.root is what every
\* goroutine has read: it is not written again.
C27_BuildOnce ==
    pc = "calls" =>
        /\ once.builds <= 1
        /\ (once.builds = 0) = (once.root = NilRoot)
        /\ \A p \in 1..NProcs :
              once.procs[p].pc = "done" =>
                 /\ once.builds = 1
                 /\ once.procs[p].n # NilRoot
                 /\ once.procs[p].n = once.root
                 /\ once.procs[p].n = encoding.root

\* two goroutines took the slow path, one built, all have read the root
C27_Witness ==
    /\ pc = "calls"
    /\ \A p \in 1..NProcs : once.procs[p].pc = "done"
    /\ once.procs[1].call = "Decode" /\ once.procs[2].call = "NewDecoder"
    /\ once.builds = 1 /\ once.done /\ once.m = 0

-----------------------------------------------------------------------------
(* Empty input.                                                            *)

\* the text holds nothing but CR and LF bytes (or nothing at all)
OnlyNewlines(ts) == \A x \in 1..Len(ts) : ts[x].k = "nl"

\* C28: in every configuration, encoding no bytes gives the empty text, and
\* decoding the empty text or a text of CR and LF bytes only gives no bytes
\* and no error.
C28_EmptyInput ==
    /\ (pc = "encoded" /\ steps = 0 /\ data = <<>>) => (text = <<>> /\ panicked = "")
    /\ (pc \in {"roundtrip", "decoded"} /\ OnlyNewlines(toks)) =>
          (res.err = NilErr /\ res.out = <<>> /\ panicked = "")

C28_Witness ==
    /\ pc = "decoded" /\ Len(toks) = 3 /\ OnlyNewlines(toks)
    /\ text = <<CR, LF, CR>>
    /\ res.err = NilErr /\ res.out = <<>>

-----------------------------------------------------------------------------
(* The cursor of the streaming encoder.                                    *)

\* the bytes written so far that make whole 3-byte blocks
WholeBlocks(b) == SubSeq(b, 1, Len(b) - (Len(b) % 3))

\* every call so far was a Write and none of them failed
OnlyWrites == pc = "writer" /\ ~wr.closed /\ wr.failed = NilErr /\ panicked = ""

\* C29: after Write calls that all succeeded, T bytes in all, the encoder
\* holds the last T mod 3 bytes, the sink has received the encoding of the
\* first T - (T mod 3) bytes, without a padding symbol, and the bytes held
\* reach the sink when Close is called.
C29_EncoderCursor ==
    /\ OnlyWrites =>
          /\ wr.e.nbuf = Len(wr.input) % 3
          /\ SubSeq(wr.e.buf, 1, wr.e.nbuf)
                = SubSeqFrom(wr.input, Len(wr.input) - (Len(wr.input) % 3) + 1)
          /\ wr.sink = EncodeToString(encoding, WholeBlocks(wr.input)).s
          /\ \E ts \in {Tokenize(encoding, wr.sink)} :
                \A x \in 1..Len(ts) : ts[x].k = "sym"
    /\ (pc = "writer" /\ wr.op = "Close" /\ wr.late = 0 /\ wr.failed = NilErr
          /\ panicked = "") =>
          (wr.e.nbuf = 0 /\ wr.sink = EncodeToString(encoding, wr.input).s)

\* three Writes over a sink that may fail but did not: 1, 7 and 2 bytes
C29_Witness ==
    /\ OnlyWrites /\ wr.fails /\ wr.ops = 3 /\ wr.plen = 2
    /\ Len(wr.input) = 10 /\ wr.e.nbuf = 1 /\ IsPadded
    /\ wr.calls = 2

-----------------------------------------------------------------------------
(* Re-encoding.                                                            *)

\* C30: when DecodeString, or the streaming decoder read to its end, accepts
\* a text and gives the bytes d, the encoding of d is accepted by
\* DecodeString and decodes to d.
C30_CanonicalReencoding ==
    pc = "reencoded" => (panicked = "" /\ re.err = NilErr /\ re.out = re.d)

\* a hand-built text that is not the encoding of what it decodes to
C30_Witness ==
    /\ pc = "reencoded" /\ re.from = "Read"
    /\ re.d # <<>> /\ re.encoded # text
    /\ re.out = re.d

-----------------------------------------------------------------------------
(* C31 *)

\* d is what recv.Strict() (op "Strict") or recv.WithPadding(arg) returned:
\* it has the alphabet of recv, differs from it in the strict flag
\* respectively in the padding symbol and the width only, and has no
\* recognizer yet
DerivedFrom(recv, d, op, arg) ==
    /\ d.encode = recv.encode
    /\ d.decode = recv.decode
    /\ d.root = NilRoot
    /\ op = "Strict" =>
          /\ d.strict
          /\ d.padChar = recv.padChar
          /\ d.maxSize = recv.maxSize
    /\ op = "WithPadding" =>
          /\ d.strict = recv.strict
          /\ d.padChar = arg
          /\ d.maxSize = Max(recv.maxSize, RuneLen(arg))

\* C31: Strict() and WithPadding(p) return a copy that differs from the
\* receiver in the strict flag, respectively in the padding symbol and the
\* width, only; the receiver keeps its fields, its recognizer and its decode
\* results; the copy has no recognizer and builds its own, so that a copy
\* derived after the receiver decoded (d2) decodes every text as the copy
\* derived before (d1) does, and decodes what it encoded itself
C31_DerivationIsolated ==
    /\ pc \in {"derived", "used", "derived again", "compared"} /\ panicked = "" =>
          /\ DerivedFrom(conf.recv, conf.d1, conf.op, conf.arg)
          /\ conf.recv = Encodings[cfg]
    /\ pc \in {"derived again", "compared"} =>
          /\ DerivedFrom(conf.used, conf.d2, conf.op, conf.arg)
          /\ conf.used = encoding
          /\ encoding = buildOnce(conf.recv)
          /\ encoding.root # NilRoot
    /\ pc = "compared" =>
          /\ conf.r2 = conf.r1
          /\ conf.r = res
          /\ conf.own => conf.r1.err = NilErr /\ conf.r1.out = conf.b

\* WithPadding('=') on a configuration padded with U+30FB that has decoded
\* already: the copy decodes a text that ends in '='
C31_Witness ==
    /\ pc = "compared"
    /\ conf.op = "WithPadding"
    /\ conf.arg = 61
    /\ conf.used.padChar = StdPadding
    /\ conf.used.root # NilRoot
    /\ res.err = NilErr
    /\ conf.own
    /\ conf.b = <<0>>
    /\ conf.t[Len(conf.t)] = 61
    /\ conf.r2.err = NilErr
    /\ conf.r2.out = <<0>>

-----------------------------------------------------------------------------
(* C32 *)

\* the alphabet and padding symbols of a text, in order: the slots that the
\* decoder fills
Slots(ts) == SelectSeq(ts, LAMBDA t : t.k \in {"sym", "pad"})

\* the padding symbols among the four slots of quantum m
PadsOfQuantum(sl, m) ==
    Cardinality({x \in (4 * m + 1)..Min(4 * m + 4, Len(sl)) : sl[x].k = "pad"})

\* a text of whole symbols in which some quantum holds 3 or 4 padding symbols
OverPadded(ts) ==
    /\ WholeSymbols(ts)
    /\ \E sl \in {Slots(ts)} : \E m \in 0..(Len(sl) \div 4) : PadsOfQuantum(sl, m) >= 3

\* C32: Decode never converts a quantum with a pad counter other than 0, 1
\* or 2 (the branch for 3 or 4 is never the one that returns), the pad
\* counter of the streaming decoder is 0, 1 or 2 after every Read, and a
\* text with a quantum of 3 or 4 padding symbols gives CorruptInputError
\* from DecodeString and from the streaming decoder
C32_PadCounterBounded ==
    /\ res.why # "over-padding"
    /\ dec # NoDecoder => dec.padCount \in 0..2
    /\ pc \in {"decoded", "roundtrip", "stream"} /\ OverPadded(toks) => res.err >= 0
    /\ pc = "stream" /\ rerr # NilErr /\ OverPadded(toks) => rerr >= 0

\* the streaming decoder and DecodeString have rejected a text of three
\* padding symbols
C32_Witness ==
    /\ pc = "stream"
    /\ OverPadded(toks)
    /\ Len(toks) = 3
    /\ res.err >= 0
    /\ rerr >= 0
    /\ dec.padCount = 0

-----------------------------------------------------------------------------
(* C33 *)

\* the bytes of the input that Decode has read when its locals are s: the
\* byte at i has been read when the loop was left from inside a pass
Consumed(s) == IF s.exit \in {"return", "panic"} THEN s.i + 1 ELSE s.i

\* the byte offsets at which a token of the text starts or ends
Boundaries(ts) == {EndPos(ts, y) : y \in 0..Len(ts)}

\* lastRune and lastBlock are byte offsets of the input read so far
TrackedInside ==
    pc \in {"loop", "decoded"} =>
        /\ loop.lastRune \in 0..Consumed(loop)
        /\ loop.lastBlock \in 0..Consumed(loop)
        /\ Consumed(loop) <= Len(text)
        /\ loop.lastRune \in Boundaries(toks)
        /\ loop.lastBlock \in Boundaries(toks)

\* the offset of a CorruptInputError is a byte offset of the input, at the
\* start or the end of one of its symbols, and it is what DecodeString gives
OffsetInside ==
    pc = "decoded" =>
        /\ res.err >= 0 => res.err \in 0..Len(text) /\ res.err \in Boundaries(toks)
        /\ res.err = DecodeString(encoding, text).err

\* a pass of the main loop does not take lastRune or lastBlock back
TrackedMonotone ==
    pc = "loop" /\ pc' = "loop" =>
        /\ loop'.lastRune >= loop.lastRune
        /\ loop'.lastBlock >= loop.lastBlock
        /\ Consumed(loop') >= Consumed(loop)

\* C33: the offset k of every CorruptInputError that Decode returns is a
\* byte offset with 0 <= k <= len(src), at a symbol boundary of src; while
\* Decode runs, lastRune and lastBlock never decrease and never exceed the
\* count of the bytes read so far
C33_OffsetsAreBytePositions ==
    [](TrackedInside /\ OffsetInside) /\ [][TrackedMonotone]_vars

\* a whole quantum of 12 bytes, one more symbol and an invalid byte: the
\* offset 15 is the count of the bytes, not of the 5 symbols, before it
C33_Witness ==
    /\ pc = "decoded"
    /\ Len(toks) = 6
    /\ Len(text) = 16
    /\ loop.lastBlock = 12
    /\ loop.lastRune = 15
    /\ res.err = 15

-----------------------------------------------------------------------------
(* C34 *)

\* C34: when Decode returns a CorruptInputError its count is 0, so that
\* DecodeString returns an empty slice with the error, whatever the main
\* loop had written to the buffer before
C34_NoPartialResult ==
    pc = "decoded" /\ res.err >= 0 =>
        /\ res.out = <<>>
        /\ \E d \in {DecodeString(encoding, text)} : d.err = res.err /\ d.out = <<>>

\* Decode had converted a whole quantum to three bytes (k = 3) when it
\* found the error
C34_Witness ==
    /\ pc = "decoded"
    /\ res.err >= 0
    /\ loop.k >= 3
    /\ loop.lastBlock > 0
    /\ res.out = <<>>

====
